---- MODULE Spec2Model ----
(***************************************************************************)
(* Model of fusedrug's ModularTokenizer                                    *)
(* (src/fusedrug/data/tokenizer/modulartokenizer/modular_tokenizer.py).    *)
(*                                                                         *)
(* A sub-tokenizer JSON document is the record                             *)
(*   [added_tokens |-> sequence of [id, content], vocab |-> text -> id];   *)
(* the remaining fields of a special-token structure (single_word, lstrip, *)
(* rstrip, normalized, special) are constants of the template and are not  *)
(* carried.  An absent optional integer (Python None) is NoneVal.          *)
(***************************************************************************)
EXTENDS Integers, Sequences, FiniteSets, TLC

VARIABLES
    built,                  \* TRUE once __init__ returned normally
    tokenizers_info,        \* ordered sub-tokenizers: [name, json_path, json]
    special_tokens_dict,    \* [given, toks]: self.special_tokens_dict
    max_possible_token_id,  \* self._max_possible_token_id
    max_special_token_id,   \* self._max_special_token_id
    decoder_dict,           \* id -> [token, is_special]
    saved,                  \* the directory written by save()
    last,                   \* the last call: operation, arguments, outcome
    rm,                     \* a remap_vocab call: arguments and result
    padding                 \* self.max_len, self._pad_token_id, self._pad_token

vars == <<built, tokenizers_info, special_tokens_dict, max_possible_token_id,
          max_special_token_id, decoder_dict, saved, last, rm, padding>>

(***************************************************************************)
(* Bounds of the explored inputs.                                          *)
(***************************************************************************)
MaxVocab == 2        \* tokens in one source vocabulary
MaxSpecialArgs == 2  \* entries of special_tokens_dict
MaxLimit == 2        \* largest max_special_token_id tried
MaxPossible == 4     \* the max_possible_token_id tried
MaxAddLen == 2       \* length of the list given to add_special_tokens
MaxRemapId == 3      \* largest original ID in remap_vocab's own input space

NoneVal == -1

SpecialTexts == {"P", "E"}
VocabTexts == {"P", "a", "b"}
NewTexts == {"N", "M"}
Names == <<"AA", "SM">>

\* a path is the sequence of its components; a descriptor key that holds a
\* path may also hold None or be missing
PathOf(parts) == [kind |-> "path", parts |-> parts]

NonePath == [kind |-> "none", parts |-> <<>>]

KeyAbsent == [kind |-> "absent", parts |-> <<>>]

Paths == <<PathOf(<<"x.json">>), PathOf(<<"y.json">>)>>

ModularPaths == <<PathOf(<<"out", "x.json">>), PathOf(<<"out", "y.json">>)>>

(***************************************************************************)
(* Generic helpers.                                                        *)
(***************************************************************************)
Max(S) == CHOOSE x \in S : \A y \in S : y <= x

Min(S) == CHOOSE x \in S : \A y \in S : x <= y

Range(f) == {f[x] : x \in DOMAIN f}

EmptyMap == [x \in {} |-> 0]

\* Python dict.update(b) on a: b's entries win
Update(a, b) ==
    [x \in (DOMAIN a) \cup (DOMAIN b) |-> IF x \in DOMAIN b THEN b[x] ELSE a[x]]

Restrict(f, S) == [x \in (DOMAIN f) \cap S |-> f[x]]

SeqsUpTo(S, n) == UNION {[1..k -> S] : k \in 0..n}

DistinctSeqsUpTo(S, n) ==
    {s \in SeqsUpTo(S, n) : \A i, j \in DOMAIN s : i # j => s[i] # s[j]}

\* all orders in which a list built from a set may enumerate it
Orders(S) ==
    {s \in [1..Cardinality(S) -> S] : \A i, j \in DOMAIN s : i # j => s[i] # s[j]}

NoErr == [ok |-> TRUE, err |-> "none"]

(***************************************************************************)
(* sorted(items, key=id): ascending by ID.  The vocabularies of the model  *)
(* are injective, so no two keys tie.                                      *)
(***************************************************************************)
\* sorted(...) as it would be with reverse=True
RECURSIVE SortById_Descending(_, _)
SortById_Descending(S, vocab) ==
    IF S = {} THEN <<>>
    ELSE LET m == CHOOSE t \in S : \A u \in S : vocab[t] >= vocab[u]
         IN  <<m>> \o SortById_Descending(S \ {m}, vocab)

RECURSIVE SortById(_, _)
SortById(S, vocab) ==
    IF S = {} THEN <<>>
    ELSE LET m == CHOOSE t \in S : \A u \in S : vocab[t] <= vocab[u]
         IN  <<m>> \o SortById(S \ {m}, vocab)

IndexOf(s, x) == CHOOSE i \in DOMAIN s : s[i] = x

(***************************************************************************)
(* build_special_token_list(special_tokens, starting_index), token_ids     *)
(* not given: consecutive IDs from starting_index (0 when None).           *)
(***************************************************************************)
build_special_token_list(special_tokens, starting_index) ==
    LET starting_index_to_use == IF starting_index = NoneVal THEN 0 ELSE starting_index
    IN  [i \in DOMAIN special_tokens |->
            [id |-> (i - 1) + starting_index_to_use, content |-> special_tokens[i]]]

\* {t["content"]: t["id"] for t in structs}: a later structure of the same
\* content overwrites an earlier one
StructVocab(structs) ==
    [c \in {structs[i].content : i \in DOMAIN structs} |->
        structs[Max({i \in DOMAIN structs : structs[i].content = c})].id]

(***************************************************************************)
(* remap_vocab(vocab, special_token_structs, starting_index).              *)
(* max() of an empty sequence raises ValueError.                           *)
(***************************************************************************)
\* remap_vocab as it would be if the special texts stayed among the regulars
remap_vocab_KeepsSpecials(vocab, special_token_structs, starting_index) ==
    LET nonempty == Len(special_token_structs) > 0
        init_vocab == IF nonempty THEN StructVocab(special_token_structs) ELSE EmptyMap
        special_tokens == DOMAIN init_vocab
        start == IF starting_index # NoneVal THEN starting_index
                 ELSE IF nonempty THEN Max(Range(init_vocab)) + 1 ELSE 0
        regular_tokens == DOMAIN vocab
        regular_sorted == SortById(regular_tokens, vocab)
        regular_vocab == [t \in regular_tokens |-> (IndexOf(regular_sorted, t) - 1) + start]
    IN  IF regular_tokens = {}
        THEN [ok |-> FALSE, err |-> "ValueError", vocab |-> EmptyMap, next |-> NoneVal]
        ELSE [ok |-> TRUE, err |-> "none",
              vocab |-> Update(init_vocab, regular_vocab),
              next |-> Max(Range(regular_vocab)) + 1]

\* remap_vocab
remap_vocab(vocab, special_token_structs, starting_index) ==
    LET nonempty == Len(special_token_structs) > 0
        init_vocab == IF nonempty THEN StructVocab(special_token_structs) ELSE EmptyMap
        special_tokens == DOMAIN init_vocab
        start == IF starting_index # NoneVal THEN starting_index
                 ELSE IF nonempty THEN Max(Range(init_vocab)) + 1 ELSE 0
        regular_tokens == (DOMAIN vocab) \ special_tokens
        regular_sorted == SortById(regular_tokens, vocab)
        regular_vocab == [t \in regular_tokens |-> (IndexOf(regular_sorted, t) - 1) + start]
    IN  IF regular_tokens = {}
        THEN [ok |-> FALSE, err |-> "ValueError", vocab |-> EmptyMap, next |-> NoneVal]
        ELSE [ok |-> TRUE, err |-> "none",
              vocab |-> Update(init_vocab, regular_vocab),
              next |-> Max(Range(regular_vocab)) + 1]

(***************************************************************************)
(* JSON introspection helpers.                                             *)
(***************************************************************************)
get_subtokenizer_added_tokens(json) ==
    [i \in DOMAIN json.added_tokens |-> json.added_tokens[i].content]

get_subtokenizer_regular_tokens(json) ==
    (DOMAIN json.vocab) \ Range(get_subtokenizer_added_tokens(json))

get_subtokenizer_vocab(json, token_list) == Restrict(json.vocab, token_list)

SpecialVocab(json) ==
    get_subtokenizer_vocab(json, Range(get_subtokenizer_added_tokens(json)))

RegularVocab(json) ==
    get_subtokenizer_vocab(json, get_subtokenizer_regular_tokens(json))

(***************************************************************************)
(* Tokenizer.from_str(json.dumps(t_json)).to_str(): the engine resolves    *)
(* every added token against the model vocabulary (a token that is in the  *)
(* vocabulary takes the vocabulary's ID), keeps one added token per ID and *)
(* serialises the added tokens in ascending ID order.  model.vocab is      *)
(* serialised as loaded.                                                   *)
(***************************************************************************)
RECURSIVE SortStructs(_)
SortStructs(S) ==
    IF S = {} THEN <<>>
    ELSE LET m == CHOOSE r \in S : \A q \in S : r.id <= q.id
         IN  <<m>> \o SortStructs(S \ {m})

\* the round trip as it would be if the engine kept every added token as listed
EngineRoundTrip_KeepsRecords(json) ==
    [added_tokens |-> SortStructs(Range(json.added_tokens)), vocab |-> json.vocab]

EngineRoundTrip(json) ==
    LET resolved == {[id |-> IF r.content \in DOMAIN json.vocab
                             THEN json.vocab[r.content] ELSE r.id,
                      content |-> r.content] : r \in Range(json.added_tokens)}
    IN  [added_tokens |-> SortStructs(resolved), vocab |-> json.vocab]

\* tokenizer_inst.add_special_tokens(list): number of tokens newly created
EngineAddSpecialTokens(json, toks) ==
    Cardinality(Range(toks) \ DOMAIN json.vocab)

\* update_id2token_mapping as it would be if is_special were not passed on
update_id2token_mapping_Unflagged(id2token, add_vocab, is_special) ==
    LET fresh == Range(add_vocab) \ DOMAIN id2token
        entry(i) == [token |-> CHOOSE t \in DOMAIN add_vocab : add_vocab[t] = i,
                     is_special |-> FALSE]
    IN  [i \in (DOMAIN id2token) \cup fresh |->
            IF i \in DOMAIN id2token THEN id2token[i] ELSE entry(i)]

(***************************************************************************)
(* update_id2token_mapping: an ID already present keeps its first entry.   *)
(***************************************************************************)
update_id2token_mapping(id2token, add_vocab, is_special) ==
    LET fresh == Range(add_vocab) \ DOMAIN id2token
        entry(i) == [token |-> CHOOSE t \in DOMAIN add_vocab : add_vocab[t] = i,
                     is_special |-> is_special]
    IN  [i \in (DOMAIN id2token) \cup fresh |->
            IF i \in DOMAIN id2token THEN id2token[i] ELSE entry(i)]

(***************************************************************************)
(* build_inner_decoder: the sub-tokenizer met while the index is still     *)
(* empty registers its specials, every sub-tokenizer registers its         *)
(* regulars.                                                               *)
(***************************************************************************)
RECURSIVE DecoderFrom(_, _, _)
DecoderFrom(tinfo, k, dict) ==
    IF k > Len(tinfo) THEN dict
    ELSE LET json == tinfo[k].json
             with_sp == IF DOMAIN dict = {}
                        THEN update_id2token_mapping(dict, SpecialVocab(json), TRUE)
                        ELSE dict
             with_reg == update_id2token_mapping(with_sp, RegularVocab(json), FALSE)
         IN  DecoderFrom(tinfo, k + 1, with_reg)

build_inner_decoder(tinfo) == DecoderFrom(tinfo, 1, EmptyMap)

(***************************************************************************)
(* diagnose: the three consistency tests; nothing is tested when there is  *)
(* a single sub-tokenizer.                                                 *)
(***************************************************************************)
RegularIds(json) == Range(RegularVocab(json))

AllIndsUpTo(tinfo, k) == UNION {RegularIds(tinfo[j].json) : j \in 1..k}

diagnose(tinfo) ==
    LET n == Len(tinfo)
        special_tokens_vocab == SpecialVocab(tinfo[1].json)
        special_ids == Range(special_tokens_vocab)
        all_regular == AllIndsUpTo(tinfo, n)
    IN  IF n > 1
        THEN [special_token_consistency |->
                 \A k \in 1..n : special_tokens_vocab = SpecialVocab(tinfo[k].json),
              id_duplicates_in_vocab |->
                 /\ \A k \in 1..n :
                       Cardinality(DOMAIN RegularVocab(tinfo[k].json))
                           = Cardinality(RegularIds(tinfo[k].json))
                 /\ Cardinality(DOMAIN special_tokens_vocab) = Cardinality(special_ids),
              id_collisions_across_vocabs |->
                 /\ \A k \in 1..n :
                       Cardinality(AllIndsUpTo(tinfo, k))
                           = Cardinality(AllIndsUpTo(tinfo, k - 1))
                               + Cardinality(RegularIds(tinfo[k].json))
                 /\ Cardinality(all_regular \cup special_ids)
                       = Cardinality(all_regular) + Cardinality(special_ids)]
        ELSE [special_token_consistency |-> TRUE,
              id_duplicates_in_vocab |-> TRUE,
              id_collisions_across_vocabs |-> TRUE]

is_consistent(tinfo) ==
    LET r == diagnose(tinfo)
    IN  r.special_token_consistency /\ r.id_duplicates_in_vocab
            /\ r.id_collisions_across_vocabs

_get_max_mapped_id(dict) == Max(DOMAIN dict)

get_added_vocab(tinfo) == SpecialVocab(tinfo[1].json)

(***************************************************************************)
(* __init__.                                                               *)
(***************************************************************************)
Failure(e) == [ok |-> FALSE, err |-> e, tinfo |-> <<>>, decoder |-> EmptyMap]

\* lines 93-105: append each sub-tokenizer's added tokens that are not yet
\* in the list
RECURSIVE GatherSpecials(_, _, _)
GatherSpecials(descs, k, all_special_tokens) ==
    IF k > Len(descs) THEN all_special_tokens
    ELSE LET part == get_subtokenizer_added_tokens(descs[k].json)
             kept == SelectSeq(part, LAMBDA t : t \notin Range(all_special_tokens))
         IN  GatherSpecials(descs, k + 1, all_special_tokens \o kept)

\* lines 146-167: instantiate the engine from the JSON, test that the
\* special tokens of special_tokens_dict are known, read the JSON back
Instantiate(json, std) ==
    IF std.given /\ EngineAddSpecialTokens(json, std.toks) > 0
    THEN [ok |-> FALSE, err |-> "Exception", json |-> json]
    ELSE [ok |-> TRUE, err |-> "none", json |-> EngineRoundTrip(json)]

\* lines 134-167, one sub-tokenizer per level
RECURSIVE BuildLoop(_, _, _, _, _, _, _)
BuildLoop(descs, k, load_adjusted, structs, next_index, std, done) ==
    IF k > Len(descs) THEN [ok |-> TRUE, err |-> "none", tinfo |-> done]
    ELSE LET d == descs[k]
             remapped == IF load_adjusted
                         THEN [ok |-> TRUE, err |-> "none", vocab |-> d.json.vocab,
                               next |-> next_index]
                         ELSE remap_vocab(d.json.vocab, structs, next_index)
             t_json == IF load_adjusted THEN d.json
                       ELSE [added_tokens |-> structs, vocab |-> remapped.vocab]
             inst == Instantiate(t_json, std)
         IN  IF ~remapped.ok THEN [ok |-> FALSE, err |-> remapped.err, tinfo |-> done]
             ELSE IF ~inst.ok THEN [ok |-> FALSE, err |-> inst.err, tinfo |-> done]
             ELSE BuildLoop(descs, k + 1, load_adjusted, structs, remapped.next, std,
                            Append(done, [name |-> d.name, json_path |-> d.json_path,
                                          modular_json_path |-> d.modular_json_path,
                                          json |-> inst.json]))

\* Finish as it would be if an ID equal to the limit were refused
Finish_LimitExclusive(tinfo, maxPossible) ==
    LET decoder == build_inner_decoder(tinfo)
    IN  IF ~is_consistent(tinfo) THEN Failure("Inconsistent")
        ELSE IF maxPossible = NoneVal
        THEN [ok |-> TRUE, err |-> "none", tinfo |-> tinfo, decoder |-> decoder]
        ELSE IF DOMAIN decoder = {} THEN Failure("ValueError")
        ELSE IF _get_max_mapped_id(decoder) >= maxPossible THEN Failure("BudgetExceeded")
        ELSE [ok |-> TRUE, err |-> "none", tinfo |-> tinfo, decoder |-> decoder]

\* lines 177-184
Finish(tinfo, maxPossible) ==
    LET decoder == build_inner_decoder(tinfo)
    IN  IF ~is_consistent(tinfo) THEN Failure("Inconsistent")
        ELSE IF maxPossible = NoneVal
        THEN [ok |-> TRUE, err |-> "none", tinfo |-> tinfo, decoder |-> decoder]
        ELSE IF DOMAIN decoder = {} THEN Failure("ValueError")
        ELSE IF _get_max_mapped_id(decoder) > maxPossible THEN Failure("BudgetExceeded")
        ELSE [ok |-> TRUE, err |-> "none", tinfo |-> tinfo, decoder |-> decoder]

AllSpecialTokens(descs, std, additional) ==
    GatherSpecials(descs, 1,
        (IF std.given THEN std.toks ELSE <<>>)
            \o (IF additional.given THEN additional.toks ELSE <<>>))

\* Construct as it would be if the load path accepted the token arguments
Construct_LoadTakesTokens(descs, load_adjusted, std, additional, maxPossible, maxSpecial) ==
    IF ~load_adjusted
    THEN LET structs == build_special_token_list(
                            AllSpecialTokens(descs, std, additional), NoneVal)
             first_index == Max({structs[i].id : i \in DOMAIN structs}) + 1
             next_index == IF maxSpecial # NoneVal THEN maxSpecial + 1 ELSE first_index
             loop == BuildLoop(descs, 1, FALSE, structs, next_index, std, <<>>)
         IN  IF Len(structs) = 0 THEN Failure("ValueError")
             ELSE IF maxSpecial # NoneVal /\ first_index > maxSpecial
             THEN Failure("ConfigError")
             ELSE IF ~loop.ok THEN Failure(loop.err)
             ELSE Finish(loop.tinfo, maxPossible)
    ELSE LET loop == BuildLoop(descs, 1, TRUE, <<>>, NoneVal, std, <<>>)
         IN  IF ~loop.ok THEN Failure(loop.err)
             ELSE Finish(loop.tinfo, maxPossible)

Construct(descs, load_adjusted, std, additional, maxPossible, maxSpecial) ==
    IF ~load_adjusted
    THEN LET structs == build_special_token_list(
                            AllSpecialTokens(descs, std, additional), NoneVal)
             first_index == Max({structs[i].id : i \in DOMAIN structs}) + 1
             next_index == IF maxSpecial # NoneVal THEN maxSpecial + 1 ELSE first_index
             loop == BuildLoop(descs, 1, FALSE, structs, next_index, std, <<>>)
         IN  IF Len(structs) = 0 THEN Failure("ValueError")
             ELSE IF maxSpecial # NoneVal /\ first_index > maxSpecial
             THEN Failure("ConfigError")
             ELSE IF ~loop.ok THEN Failure(loop.err)
             ELSE Finish(loop.tinfo, maxPossible)
    ELSE LET loop == BuildLoop(descs, 1, TRUE, <<>>, NoneVal, std, <<>>)
         IN  IF std.given \/ additional.given THEN Failure("ConfigError")
             ELSE IF ~loop.ok THEN Failure(loop.err)
             ELSE Finish(loop.tinfo, maxPossible)

(***************************************************************************)
(* add_special_tokens(tokens).  list(set(...)) enumerates the new texts in *)
(* an order the run-time chooses: order is one such enumeration.           *)
(***************************************************************************)
\* update_vocab as it would be if it renumbered the sorted entries
update_vocab_Renumbered(vocab, special_token_structs) ==
    LET merged == Update(vocab, StructVocab(special_token_structs))
        sorted == SortById(DOMAIN merged, merged)
    IN  [t \in DOMAIN merged |-> IndexOf(sorted, t) - 1]

\* update_vocab: vocab.update(special_vocab), then sorted by ID (the order
\* of a dict's items is not part of the function that models it)
update_vocab(vocab, special_token_structs) ==
    Update(vocab, StructVocab(special_token_structs))

\* NewTokens as it would be if the existing special tokens were not removed
NewTokens_KeepsSpecials(tinfo, tokens) == Range(tokens)

\* the texts of the call that are not yet special tokens
NewTokens(tinfo, tokens) == Range(tokens) \ DOMAIN get_added_vocab(tinfo)

\* TokensRegular as it would be if only the entries flagged special were looked at
TokensRegular_SpecialEntries(tinfo, decoder, tokens) ==
    NewTokens(tinfo, tokens)
        \cap {decoder[i].token : i \in {j \in DOMAIN decoder : decoder[j].is_special}}

\* those of them that some decoder entry already carries
TokensRegular(tinfo, decoder, tokens) ==
    NewTokens(tinfo, tokens) \cap {decoder[i].token : i \in DOMAIN decoder}

\* AddStart as it would be if the unlimited branch forgot the + 1
AddStart_NoIncrement(tinfo, decoder, maxPossible, maxSpecial, k) ==
    IF maxSpecial # NoneVal
    THEN LET next_id == Max(Range(get_added_vocab(tinfo))) + 1
         IN  IF maxSpecial - next_id < k
             THEN [ok |-> FALSE, err |-> "BudgetExceeded", next_id |-> next_id]
             ELSE [ok |-> TRUE, err |-> "none", next_id |-> next_id]
    ELSE IF maxPossible # NoneVal
    THEN [ok |-> FALSE, err |-> "AttributeError", next_id |-> NoneVal]
    ELSE [ok |-> TRUE, err |-> "none", next_id |-> _get_max_mapped_id(decoder)]

\* AddStart as it would be if the special budget were checked two IDs late
AddStart_LateBudget(tinfo, decoder, maxPossible, maxSpecial, k) ==
    IF maxSpecial # NoneVal
    THEN LET next_id == Max(Range(get_added_vocab(tinfo))) + 1
         IN  IF maxSpecial + 2 - next_id < k
             THEN [ok |-> FALSE, err |-> "BudgetExceeded", next_id |-> next_id]
             ELSE [ok |-> TRUE, err |-> "none", next_id |-> next_id]
    ELSE IF maxPossible # NoneVal
    THEN [ok |-> FALSE, err |-> "AttributeError", next_id |-> NoneVal]
    ELSE [ok |-> TRUE, err |-> "none", next_id |-> _get_max_mapped_id(decoder) + 1]

\* lines 1147-1162: the first ID to hand out, or the error raised
AddStart(tinfo, decoder, maxPossible, maxSpecial, k) ==
    IF maxSpecial # NoneVal
    THEN LET next_id == Max(Range(get_added_vocab(tinfo))) + 1
         IN  IF maxSpecial - next_id < k
             THEN [ok |-> FALSE, err |-> "BudgetExceeded", next_id |-> next_id]
             ELSE [ok |-> TRUE, err |-> "none", next_id |-> next_id]
    ELSE IF maxPossible # NoneVal
    THEN [ok |-> FALSE, err |-> "AttributeError", next_id |-> NoneVal]
    ELSE [ok |-> TRUE, err |-> "none", next_id |-> _get_max_mapped_id(decoder) + 1]

\* AddToSub as it would be if every sub-tokenizer numbered the new tokens
\* after its own largest ID
AddToSub_OwnIds(t, structs, std) ==
    LET own == build_special_token_list([i \in DOMAIN structs |-> structs[i].content],
                                        Max(Range(t.json.vocab)) + 1)
        t_json == [added_tokens |-> t.json.added_tokens \o own,
                   vocab |-> Update(t.json.vocab, StructVocab(own))]
        inst == Instantiate(t_json, std)
    IN  [name |-> t.name, json_path |-> t.json_path,
         modular_json_path |-> t.modular_json_path, json |-> inst.json]

\* lines 1168-1204 for one sub-tokenizer
AddToSub(t, structs, std) ==
    LET t_json == [added_tokens |-> t.json.added_tokens \o structs,
                   vocab |-> update_vocab(t.json.vocab, structs)]
        inst == Instantiate(t_json, std)
    IN  [name |-> t.name, json_path |-> t.json_path,
         modular_json_path |-> t.modular_json_path, json |-> inst.json]

\* lines 1168-1204, one sub-tokenizer per level.  The JSON document of a
\* sub-tokenizer is updated in place before its engine is instantiated: an
\* error raised there leaves that document changed and the sub-tokenizers
\* before it fully updated
RECURSIVE AddLoop(_, _, _, _)
AddLoop(tinfo, k, structs, std) ==
    IF k > Len(tinfo) THEN [ok |-> TRUE, err |-> "none", tinfo |-> tinfo]
    ELSE LET t_json == [added_tokens |-> tinfo[k].json.added_tokens \o structs,
                        vocab |-> update_vocab(tinfo[k].json.vocab, structs)]
             inst == Instantiate(t_json, std)
         IN  IF ~inst.ok
             THEN [ok |-> FALSE, err |-> inst.err,
                   tinfo |-> [tinfo EXCEPT ![k].json = t_json]]
             ELSE AddLoop([tinfo EXCEPT ![k] = AddToSub(tinfo[k], structs, std)],
                          k + 1, structs, std)

(***************************************************************************)
(* save(path) and load(path).                                              *)
(***************************************************************************)
NotSaved == [exists |-> FALSE, files |-> EmptyMap, config |-> <<>>,
             max_possible_token_id |-> NoneVal, max_special_token_id |-> NoneVal]

\* os.path.basename and os.path.join
basename(p) == p.parts[Len(p.parts)]

join(base_path, fname) == PathOf(base_path.parts \o <<fname>>)

\* the directory given to save and to load
SavePath == PathOf(<<"dir">>)

\* lines 712-719: the path whose basename names the output file; reading a
\* key the descriptor does not have raises KeyError
input_json_path(t) ==
    IF t.json_path.kind = "absent" THEN [ok |-> FALSE, err |-> "KeyError", path |-> NonePath]
    ELSE IF t.json_path.kind = "path" THEN [ok |-> TRUE, err |-> "none", path |-> t.json_path]
    ELSE IF t.modular_json_path.kind = "absent"
    THEN [ok |-> FALSE, err |-> "KeyError", path |-> NonePath]
    ELSE IF t.modular_json_path.kind = "path"
    THEN [ok |-> TRUE, err |-> "none", path |-> t.modular_json_path]
    ELSE [ok |-> FALSE, err |-> "NoJsonPath", path |-> NonePath]

\* lines 710-744: one file per sub-tokenizer, written to the directory under
\* the basename of the descriptor's path; a later file of the same name
\* replaces the earlier one, and an error leaves the files written so far
RECURSIVE WriteFiles(_, _, _)
WriteFiles(tinfo, k, files) ==
    IF k > Len(tinfo) THEN [ok |-> TRUE, err |-> "none", files |-> files]
    ELSE LET input == input_json_path(tinfo[k])
         IN  IF ~input.ok THEN [ok |-> FALSE, err |-> input.err, files |-> files]
             ELSE WriteFiles(tinfo, k + 1,
                      Update(files, [f \in {basename(input.path)} |-> tinfo[k].json]))

\* the directory after save: config.yaml names each file as ./basename under
\* both keys and holds the two limits; it is written after all the files
SaveDir(dir, tinfo, maxPossible, maxSpecial) ==
    LET written == WriteFiles(tinfo, 1, dir.files)
    IN  IF ~written.ok THEN [dir EXCEPT !.files = written.files]
        ELSE [exists |-> TRUE,
              files |-> written.files,
              config |-> [k \in DOMAIN tinfo |->
                             [name |-> tinfo[k].name,
                              json_path |->
                                  join(PathOf(<<".">>),
                                       basename(input_json_path(tinfo[k]).path)),
                              modular_json_path |->
                                  join(PathOf(<<".">>),
                                       basename(input_json_path(tinfo[k]).path))]],
              max_possible_token_id |-> maxPossible,
              max_special_token_id |-> maxSpecial]

\* load: fix_json_paths puts every path of config.yaml into the directory;
\* the constructor reads each document from its modular_json_path
LoadedDescs(dir) ==
    [k \in DOMAIN dir.config |->
        [name |-> dir.config[k].name,
         json_path |-> join(SavePath, basename(dir.config[k].json_path)),
         modular_json_path |-> join(SavePath, basename(dir.config[k].modular_json_path)),
         json |-> dir.files[basename(dir.config[k].modular_json_path)]]]

(***************************************************************************)
(* The inputs of a fresh build.                                            *)
(***************************************************************************)
NoList == [given |-> FALSE, toks |-> <<>>]

Given(s) == [given |-> TRUE, toks |-> s]

\* a source vocabulary lists its tokens in ID order, IDs 0, 1, ...
SrcVocab(texts) == [t \in Range(texts) |-> IndexOf(texts, t) - 1]

SrcJson(texts, added) ==
    [added_tokens |-> [i \in DOMAIN added |->
                          [id |-> Len(texts) + i - 1, content |-> added[i]]],
     vocab |-> SrcVocab(texts)]

SrcAddedLists == {<<>>, <<"E">>}

SrcJsons ==
    {SrcJson(texts, added) : texts \in DistinctSeqsUpTo(VocabTexts, MaxVocab),
                             added \in SrcAddedLists}

\* one sub-tokenizer over a document of jsons, or two: the first over a
\* document of jsons, the second over a document of others
DescriptorsOver(jsons, others) ==
    {<<[name |-> Names[1], json_path |-> Paths[1],
        modular_json_path |-> ModularPaths[1], json |-> j]>> : j \in jsons}
    \cup
    {<<[name |-> Names[1], json_path |-> Paths[1],
        modular_json_path |-> ModularPaths[1], json |-> j1],
       [name |-> Names[2], json_path |-> Paths[2],
        modular_json_path |-> ModularPaths[2], json |-> j2]>> :
        j1 \in jsons, j2 \in others}

SpecialDicts == {NoList} \cup {Given(s) : s \in SeqsUpTo(SpecialTexts, MaxSpecialArgs)}

AdditionalLists == {NoList, Given(<<"P">>), Given(<<"a">>)}

SpecialLimits == {NoneVal} \cup 0..MaxLimit

PossibleLimits == {NoneVal, MaxPossible}

\* the builds whose tokenizer is then driven through its other operations
LifeSrcJsons == {SrcJson(<<"a", "b">>, <<>>), SrcJson(<<"P", "a">>, <<"E">>)}

LifeSpecialDicts == {NoList, Given(<<"P">>), Given(<<"P", "P">>)}

LifeAdditionalLists == {NoList, Given(<<"a">>)}

LoadSpecialArgs == {NoList, Given(<<"P">>)}

AddTexts == NewTexts \cup {"a"}

\* the lists given to add_special_tokens: every list without a repeated text,
\* and one that names a text twice
AddLists == DistinctSeqsUpTo(AddTexts, MaxAddLen) \cup {<<"N", "N">>}

(***************************************************************************)
(* The state machine.                                                      *)
(***************************************************************************)
NoCall == [op |-> "init", ok |-> TRUE, err |-> "none", ret |-> 0, args |-> <<>>]

\* An optional string (Optional[str])
NoText == [given |-> FALSE, text |-> ""]

Text(t) == [given |-> TRUE, text |-> t]

\* __init__: self.max_len, self._pad_token_id and self._pad_token start as None
NoPadding == [max_len |-> NoneVal, pad_token_id |-> NoneVal, pad_token |-> NoText]

NoRemap == [called |-> FALSE, vocab |-> EmptyMap, structs |-> <<>>,
            start |-> NoneVal, out |-> remap_vocab(EmptyMap, <<>>, NoneVal)]

Init ==
    /\ built = FALSE
    /\ tokenizers_info = <<>>
    /\ special_tokens_dict = NoList
    /\ max_possible_token_id = NoneVal
    /\ max_special_token_id = NoneVal
    /\ decoder_dict = EmptyMap
    /\ saved = NotSaved
    /\ last = NoCall
    /\ rm = NoRemap
    /\ padding = NoPadding

\* ModularTokenizer(tokenizers_info, load_adjusted_jsons=False, ...)
FreshBuild(descs, std, additional, maxPossible, maxSpecial) ==
    LET r == Construct(descs, FALSE, std, additional, maxPossible, maxSpecial)
    IN  /\ built' = r.ok
        /\ tokenizers_info' = r.tinfo
        /\ decoder_dict' = r.decoder
        /\ special_tokens_dict' = IF r.ok THEN std ELSE NoList
        /\ max_possible_token_id' = IF r.ok THEN maxPossible ELSE NoneVal
        /\ max_special_token_id' = IF r.ok THEN maxSpecial ELSE NoneVal
        /\ last' = [op |-> "build", ok |-> r.ok, err |-> r.err, ret |-> 0,
                    args |-> [descs |-> descs, std |-> std, additional |-> additional,
                              max_possible_token_id |-> maxPossible,
                              max_special_token_id |-> maxSpecial]]
        /\ padding' = NoPadding
        /\ UNCHANGED <<saved, rm>>

\* AddSpecialTokens as it would be if the free space were tested after the
\* first sub-tokenizer was updated
AddSpecialTokens_BudgetInLoop(tokens, order) ==
    LET tokens_regular == TokensRegular(tokenizers_info, decoder_dict, tokens)
        new == NewTokens(tokenizers_info, tokens) \ tokens_regular
        st == AddStart(tokenizers_info, decoder_dict, max_possible_token_id,
                       max_special_token_id, Cardinality(new))
        structs == build_special_token_list(order, st.next_id)
        loop == AddLoop(tokenizers_info, 1, structs, special_tokens_dict)
        call == [tokens |-> tokens, order |-> order]
    IN  /\ IF tokens_regular # {}
           THEN /\ last' = [op |-> "add", ok |-> FALSE, err |-> "NameCollision",
                            ret |-> 0, args |-> call]
                /\ UNCHANGED <<tokenizers_info, decoder_dict>>
           ELSE IF new = {}
           THEN /\ last' = [op |-> "add", ok |-> TRUE, err |-> "none", ret |-> 0,
                            args |-> call]
                /\ UNCHANGED <<tokenizers_info, decoder_dict>>
           ELSE IF ~st.ok
           THEN /\ last' = [op |-> "add", ok |-> FALSE, err |-> st.err, ret |-> 0,
                            args |-> call]
                /\ tokenizers_info' =
                      [tokenizers_info EXCEPT
                          ![1] = AddToSub(tokenizers_info[1], structs, special_tokens_dict)]
                /\ UNCHANGED decoder_dict
           ELSE IF ~loop.ok
           THEN /\ tokenizers_info' = loop.tinfo
                /\ last' = [op |-> "add", ok |-> FALSE, err |-> loop.err, ret |-> 0,
                            args |-> call]
                /\ UNCHANGED decoder_dict
           ELSE /\ tokenizers_info' = loop.tinfo
                /\ decoder_dict' = build_inner_decoder(loop.tinfo)
                /\ last' = [op |-> "add", ok |-> TRUE, err |-> "none",
                            ret |-> Cardinality(new), args |-> call]
        /\ UNCHANGED <<built, special_tokens_dict, max_possible_token_id,
                       max_special_token_id, saved, rm, padding>>

\* add_special_tokens(tokens)
AddSpecialTokens(tokens, order) ==
    LET tokens_regular == TokensRegular(tokenizers_info, decoder_dict, tokens)
        new == NewTokens(tokenizers_info, tokens) \ tokens_regular
        st == AddStart(tokenizers_info, decoder_dict, max_possible_token_id,
                       max_special_token_id, Cardinality(new))
        structs == build_special_token_list(order, st.next_id)
        loop == AddLoop(tokenizers_info, 1, structs, special_tokens_dict)
        call == [tokens |-> tokens, order |-> order]
    IN  /\ IF tokens_regular # {}
           THEN /\ last' = [op |-> "add", ok |-> FALSE, err |-> "NameCollision",
                            ret |-> 0, args |-> call]
                /\ UNCHANGED <<tokenizers_info, decoder_dict>>
           ELSE IF new = {}
           THEN /\ last' = [op |-> "add", ok |-> TRUE, err |-> "none", ret |-> 0,
                            args |-> call]
                /\ UNCHANGED <<tokenizers_info, decoder_dict>>
           ELSE IF ~st.ok
           THEN /\ last' = [op |-> "add", ok |-> FALSE, err |-> st.err, ret |-> 0,
                            args |-> call]
                /\ UNCHANGED <<tokenizers_info, decoder_dict>>
           ELSE IF ~loop.ok
           THEN /\ tokenizers_info' = loop.tinfo
                /\ last' = [op |-> "add", ok |-> FALSE, err |-> loop.err, ret |-> 0,
                            args |-> call]
                /\ UNCHANGED decoder_dict
           ELSE /\ tokenizers_info' = loop.tinfo
                /\ decoder_dict' = build_inner_decoder(loop.tinfo)
                /\ last' = [op |-> "add", ok |-> TRUE, err |-> "none",
                            ret |-> Cardinality(new), args |-> call]
        /\ UNCHANGED <<built, special_tokens_dict, max_possible_token_id,
                       max_special_token_id, saved, rm, padding>>

\* ModularTokenizer(tokenizers_info, load_adjusted_jsons=True, ...) on a saved
\* directory: the descriptors and max_special_token_id are those config.yaml
\* records (ModularTokenizer.load); max_possible_token_id, which the
\* constructor checks, and the two token arguments are the caller's
Load(std, additional, maxPossible) ==
    LET descs == LoadedDescs(saved)
        r == Construct(descs, TRUE, std, additional,
                       maxPossible, saved.max_special_token_id)
        call == [descs |-> descs, std |-> std, additional |-> additional,
                 max_possible_token_id |-> maxPossible,
                 max_special_token_id |-> saved.max_special_token_id]
    IN  /\ last' = [op |-> "load", ok |-> r.ok, err |-> r.err, ret |-> 0, args |-> call]
        /\ IF r.ok
           THEN /\ tokenizers_info' = r.tinfo
                /\ decoder_dict' = r.decoder
                /\ special_tokens_dict' = std
                /\ max_possible_token_id' = maxPossible
                /\ max_special_token_id' = saved.max_special_token_id
                /\ padding' = NoPadding
           ELSE UNCHANGED <<tokenizers_info, decoder_dict, special_tokens_dict,
                            max_possible_token_id, max_special_token_id, padding>>
        /\ UNCHANGED <<built, saved, rm>>

Build ==
    /\ ~built
    /\ last.op = "init"
    /\ \E descs \in DescriptorsOver(LifeSrcJsons, LifeSrcJsons), std \in LifeSpecialDicts,
          additional \in LifeAdditionalLists,
          maxPossible \in PossibleLimits, maxSpecial \in SpecialLimits :
          FreshBuild(descs, std, additional, maxPossible, maxSpecial)

Add ==
    /\ built
    /\ \E tokens \in AddLists :
          \E order \in Orders(NewTokens(tokenizers_info, tokens)) :
              AddSpecialTokens(tokens, order)

Save ==
    /\ built
    /\ saved' = SaveDir(saved, tokenizers_info, max_possible_token_id, max_special_token_id)
    /\ last' = [op |-> "save", ok |-> WriteFiles(tokenizers_info, 1, saved.files).ok,
                err |-> WriteFiles(tokenizers_info, 1, saved.files).err,
                ret |-> 0, args |-> <<>>]
    /\ UNCHANGED <<built, tokenizers_info, special_tokens_dict, max_possible_token_id,
                   max_special_token_id, decoder_dict, rm, padding>>

Reload ==
    /\ built
    /\ saved.exists
    /\ \E std \in LoadSpecialArgs, additional \in LoadSpecialArgs,
          maxPossible \in PossibleLimits :
          Load(std, additional, maxPossible)

Next ==
    \/ Build
    \/ Add
    \/ Save
    \/ Reload

Spec == Init /\ [][Next]_vars

(***************************************************************************)
(* Construction alone, over the whole bounded input space.                 *)
(***************************************************************************)
Assemble ==
    /\ ~built
    /\ last.op = "init"
    /\ \E descs \in DescriptorsOver(SrcJsons, LifeSrcJsons), std \in SpecialDicts,
          additional \in AdditionalLists,
          maxPossible \in PossibleLimits, maxSpecial \in SpecialLimits :
          FreshBuild(descs, std, additional, maxPossible, maxSpecial)

SpecBuild == Init /\ [][Assemble]_vars

(***************************************************************************)
(* remap_vocab on its own: any injective vocabulary, any list of special   *)
(* structures, any starting index or none.                                 *)
(***************************************************************************)
InjectiveVocabs(texts, ids) ==
    UNION {{f \in [D -> ids] : \A x, y \in D : x # y => f[x] # f[y]} : D \in SUBSET texts}

RemapStructs ==
    SeqsUpTo([id : 0..MaxRemapId, content : SpecialTexts], Cardinality(SpecialTexts))

InitRemap ==
    /\ built = FALSE
    /\ tokenizers_info = <<>>
    /\ special_tokens_dict = NoList
    /\ max_possible_token_id = NoneVal
    /\ max_special_token_id = NoneVal
    /\ decoder_dict = EmptyMap
    /\ saved = NotSaved
    /\ last = NoCall
    /\ padding = NoPadding
    /\ \E vocab \in InjectiveVocabs(VocabTexts, 0..MaxRemapId), structs \in RemapStructs,
          start \in {NoneVal} \cup 0..MaxRemapId :
          rm = [called |-> FALSE, vocab |-> vocab, structs |-> structs, start |-> start,
                out |-> NoRemap.out]

RemapCall ==
    /\ ~rm.called
    /\ rm' = [rm EXCEPT !.called = TRUE,
                        !.out = remap_vocab(rm.vocab, rm.structs, rm.start)]
    /\ UNCHANGED <<built, tokenizers_info, special_tokens_dict, max_possible_token_id,
                   max_special_token_id, decoder_dict, saved, last, padding>>

SpecRemap == InitRemap /\ [][RemapCall]_vars

(***************************************************************************)
(* The read side: decode, token_to_id, encode and encode_list on a built   *)
(* tokenizer.  A string is kept as Python keeps it; a text handed to a     *)
(* sub-tokenizer is a sequence of one-character tokens.                    *)
(***************************************************************************)
MaxIds == 2        \* length of the ID list given to decode
MaxDecodeId == 4   \* largest ID given to decode

\* "".join(ret_val)
RECURSIVE Join(_)
Join(s) == IF s = <<>> THEN "" ELSE Head(s) \o Join(Tail(s))

\* f"<@TOKEN_MISSING-{id}>"
MissingText(id) == "<@TOKEN_MISSING-" \o ToString(id) \o ">"

\* decode(ids, skip_special_tokens)
decode(dict, ids, skip_special_tokens) ==
    IF skip_special_tokens
    THEN LET kept == SelectSeq(ids, LAMBDA id : id \in DOMAIN dict /\ ~dict[id].is_special)
         IN  Join([i \in DOMAIN kept |-> dict[kept[i]].token])
    ELSE Join([i \in DOMAIN ids |->
                 IF ids[i] \in DOMAIN dict THEN dict[ids[i]].token
                 ELSE MissingText(ids[i])])

\* An optional sub-tokenizer name (t_type: Optional[str])
NoType == [given |-> FALSE, name |-> ""]

Type(n) == [given |-> TRUE, name |-> n]

\* tokenizer_inst.token_to_id(token): the ID the sub-tokenizer's vocabulary
\* gives the text, or None
EngineTokenToId(json, token) ==
    IF token \in DOMAIN json.vocab THEN json.vocab[token] ELSE NoneVal

\* self.tokenizers_info[t_type]: the position of the sub-tokenizer of that name
TypeIndex(tinfo, name) == CHOOSE k \in DOMAIN tinfo : tinfo[k].name = name

TypeNames(tinfo) == {tinfo[k].name : k \in DOMAIN tinfo}

\* token_to_id as it would be if the first sub-tokenizer knowing the text won
token_to_id_FirstWins(tinfo, token, t_type) ==
    IF ~t_type.given
    THEN LET possible_ids ==
                 {EngineTokenToId(tinfo[k].json, token) : k \in DOMAIN tinfo} \ {NoneVal}
         IN  IF Cardinality(possible_ids) = 0
             THEN [ok |-> TRUE, err |-> "none", ret |-> NoneVal]
             ELSE [ok |-> TRUE, err |-> "none", ret |-> Min(possible_ids)]
    ELSE IF t_type.name \notin TypeNames(tinfo)
    THEN [ok |-> FALSE, err |-> "KeyError", ret |-> NoneVal]
    ELSE [ok |-> TRUE, err |-> "none",
          ret |-> EngineTokenToId(tinfo[TypeIndex(tinfo, t_type.name)].json, token)]

\* token_to_id(token, t_type)
token_to_id(tinfo, token, t_type) ==
    IF ~t_type.given
    THEN LET possible_ids ==
                 {EngineTokenToId(tinfo[k].json, token) : k \in DOMAIN tinfo} \ {NoneVal}
         IN  IF Cardinality(possible_ids) = 0
             THEN [ok |-> TRUE, err |-> "none", ret |-> NoneVal]
             ELSE IF Cardinality(possible_ids) = 1
             THEN [ok |-> TRUE, err |-> "none", ret |-> CHOOSE i \in possible_ids : TRUE]
             ELSE [ok |-> FALSE, err |-> "AmbiguousToken", ret |-> NoneVal]
    ELSE IF t_type.name \notin TypeNames(tinfo)
    THEN [ok |-> FALSE, err |-> "KeyError", ret |-> NoneVal]
    ELSE [ok |-> TRUE, err |-> "none",
          ret |-> EngineTokenToId(tinfo[TypeIndex(tinfo, t_type.name)].json, token)]

\* id_to_token(id)
id_to_token(dict, id) == IF id \in DOMAIN dict THEN Text(dict[id].token) ELSE NoText

\* The engine's Encoding: the ids, the attention mask and, for each sequence
\* ID that was set, the range of tokens it covers (<<first, past the last>>,
\* counted from 0).  type_ids, tokens, offsets and overflowing are not carried.
DefaultEncoding == [ids |-> <<>>, attention_mask |-> <<>>, sequence_ranges |-> EmptyMap]

\* tokenizer_inst.encode(data_str): one token for each character, which the
\* sub-tokenizer's vocabulary must hold
EngineEncode(json, data_str) ==
    IF Range(data_str) \subseteq DOMAIN json.vocab
    THEN [ok |-> TRUE, err |-> "none",
          enc |-> [ids |-> [i \in DOMAIN data_str |-> json.vocab[data_str[i]]],
                   attention_mask |-> [i \in DOMAIN data_str |-> 1],
                   sequence_ranges |-> EmptyMap]]
    ELSE [ok |-> FALSE, err |-> "EngineError", enc |-> DefaultEncoding]

\* encoded.set_sequence_id(ind_id): the range of ind_id becomes the whole encoding
set_sequence_id(enc, ind_id) ==
    [enc EXCEPT !.sequence_ranges = Update(@, ind_id :> <<0, Len(enc.ids)>>)]

\* for ind_id in range(1, sequence_id + 1): encoded.set_sequence_id(ind_id)
RECURSIVE StampUpTo(_, _, _)
StampUpTo(enc, ind_id, sequence_id) ==
    IF ind_id > sequence_id THEN enc
    ELSE StampUpTo(set_sequence_id(enc, ind_id), ind_id + 1, sequence_id)

\* one step of Encoding.merge: the second encoding is appended and its ranges,
\* moved behind the first, replace the ranges of the same sequence IDs
merge_with(a, b) ==
    [ids |-> a.ids \o b.ids,
     attention_mask |-> a.attention_mask \o b.attention_mask,
     sequence_ranges |->
        Update(a.sequence_ranges,
               [q \in DOMAIN b.sequence_ranges |->
                   <<Len(a.ids) + b.sequence_ranges[q][1],
                     Len(a.ids) + b.sequence_ranges[q][2]>>])]

\* Encoding.merge(encoded_list)
RECURSIVE MergeFrom(_, _, _)
MergeFrom(encoded_list, k, acc) ==
    IF k > Len(encoded_list) THEN acc
    ELSE MergeFrom(encoded_list, k + 1, merge_with(acc, encoded_list[k]))

EncodingMerge(encoded_list) == MergeFrom(encoded_list, 1, DefaultEncoding)

\* truncate as it would be if it cut one token more
truncate_OneShort(enc, max_length) ==
    IF max_length >= Len(enc.ids) THEN enc
    ELSE [ids |-> SubSeq(enc.ids, 1, max_length - 1),
          attention_mask |-> SubSeq(enc.attention_mask, 1, max_length - 1),
          sequence_ranges |-> EmptyMap]

\* encoding.truncate(max_length): the first max_length tokens stay; an
\* encoding that is cut loses its sequence ranges
truncate(enc, max_length) ==
    IF max_length >= Len(enc.ids) THEN enc
    ELSE [ids |-> SubSeq(enc.ids, 1, max_length),
          attention_mask |-> SubSeq(enc.attention_mask, 1, max_length),
          sequence_ranges |-> EmptyMap]

\* encoding.pad(length, direction="right", pad_id, ...)
pad(enc, length, pad_id) ==
    IF Len(enc.ids) >= length THEN enc
    ELSE [enc EXCEPT
            !.ids = @ \o [i \in 1..(length - Len(enc.ids)) |-> pad_id],
            !.attention_mask = @ \o [i \in 1..(length - Len(enc.ids)) |-> 0]]

\* encoding.sequence_ids: the sequence ID of each token, None where no range
\* covers it; a sequence ID below the number of ranges that has no range of
\* its own counts for the whole encoding
sequence_ids(enc) ==
    LET n == IF DOMAIN enc.sequence_ranges = {} THEN 1
             ELSE Cardinality(DOMAIN enc.sequence_ranges)
        range_of(q) == IF q \in DOMAIN enc.sequence_ranges THEN enc.sequence_ranges[q]
                       ELSE <<0, Len(enc.ids)>>
    IN  [i \in DOMAIN enc.ids |->
            LET cover == {q \in 0..(n - 1) : range_of(q)[1] < i /\ i <= range_of(q)[2]}
            IN  IF cover = {} THEN NoneVal ELSE Max(cover)]

TypedInput(input_type, input_string, max_len) ==
    [input_type |-> input_type, input_string |-> input_string, max_len |-> max_len]

\* _encode_single_type(data_str, input_type, sequence_id), sequence_id given
_encode_single_type(tinfo, data_str, input_type, sequence_id) ==
    IF input_type \notin TypeNames(tinfo)
    THEN [ok |-> FALSE, err |-> "InputTypeNotFound", enc |-> DefaultEncoding]
    ELSE LET encoded == EngineEncode(tinfo[TypeIndex(tinfo, input_type)].json, data_str)
         IN  IF ~encoded.ok THEN encoded
             ELSE [encoded EXCEPT !.enc = StampUpTo(@, 1, sequence_id)]

\* encode_list: for inpt in typed_input_list
RECURSIVE EncodeSegments(_, _, _, _)
EncodeSegments(tinfo, typed_input_list, curr_sequence_id, encoded_list) ==
    IF curr_sequence_id > Len(typed_input_list)
    THEN [ok |-> TRUE, err |-> "none", encoded_list |-> encoded_list]
    ELSE LET inpt == typed_input_list[curr_sequence_id]
             r == _encode_single_type(tinfo, inpt.input_string, inpt.input_type,
                                      curr_sequence_id)
             sub_encoding == IF inpt.max_len # NoneVal THEN truncate(r.enc, inpt.max_len)
                             ELSE r.enc
         IN  IF ~r.ok THEN [ok |-> FALSE, err |-> r.err, encoded_list |-> <<>>]
             ELSE EncodeSegments(tinfo, typed_input_list, curr_sequence_id + 1,
                                 Append(encoded_list, sub_encoding))

\* get_expected_max_len(override_max_len)
get_expected_max_len(self_max_len, override_max_len) ==
    IF override_max_len # NoneVal THEN override_max_len ELSE self_max_len

\* encode_list(typed_input_list, max_len, padding_token_id, padding_token);
\* pad_type_id only chooses the type_ids of the padding, which are not carried
encode_list(tinfo, dict, pad_state, typed_input_list, max_len, padding_token_id, padding_token) ==
    LET segs == EncodeSegments(tinfo, typed_input_list, 1, <<>>)
        eff_max_len == get_expected_max_len(pad_state.max_len, max_len)
        merged_encoding == IF eff_max_len # NoneVal
                           THEN truncate(EncodingMerge(segs.encoded_list), eff_max_len)
                           ELSE EncodingMerge(segs.encoded_list)
        from_state == padding_token_id = NoneVal /\ ~padding_token.given
        given_id == IF from_state THEN pad_state.pad_token_id ELSE padding_token_id
        given_token == IF from_state THEN pad_state.pad_token ELSE padding_token
        found == token_to_id(tinfo, given_token.text, NoType)
        pad_id == IF given_token.given THEN found.ret ELSE given_id
        pad_token == IF given_token.given THEN given_token
                     ELSE IF given_id # NoneVal THEN id_to_token(dict, given_id)
                     ELSE NoText
    IN  IF ~segs.ok THEN [ok |-> FALSE, err |-> segs.err, enc |-> DefaultEncoding]
        ELSE IF given_token.given /\ ~found.ok
        THEN [ok |-> FALSE, err |-> found.err, enc |-> DefaultEncoding]
        ELSE IF pad_id # NoneVal /\ pad_token.given /\ eff_max_len # NoneVal
        THEN [ok |-> TRUE, err |-> "none", enc |-> pad(merged_encoding, eff_max_len, pad_id)]
        ELSE [ok |-> TRUE, err |-> "none", enc |-> merged_encoding]

\* A character of the input text, or a whole <@TOKENIZER-TYPE=NAME> directive
Char(c) == [hint |-> FALSE, text |-> c]

Hint(n) == [hint |-> TRUE, text |-> n]

Texts(lexemes) == [i \in DOMAIN lexemes |-> lexemes[i].text]

\* re.split("<@TOKENIZER-TYPE=([^>]*)>", sequence): the text before the first
\* directive, then for each directive its name and the text that follows it
RECURSIVE re_split(_)
re_split(sequence) ==
    IF \A i \in DOMAIN sequence : ~sequence[i].hint THEN <<Texts(sequence)>>
    ELSE LET i == Min({j \in DOMAIN sequence : sequence[j].hint})
         IN  <<Texts(SubSeq(sequence, 1, i - 1)), <<sequence[i].text>>>>
             \o re_split(SubSeq(sequence, i + 1, Len(sequence)))

\* encode(sequence, max_len, padding_token_id, padding_token)
encode(tinfo, dict, pad_state, sequence, max_len, padding_token_id, padding_token) ==
    LET hints_and_subseq == Tail(re_split(sequence))
        encode_list_format ==
            [j \in 1..(Len(hints_and_subseq) \div 2) |->
                TypedInput(hints_and_subseq[2 * j - 1][1], hints_and_subseq[2 * j], NoneVal)]
    IN  IF ~(Len(hints_and_subseq) > 0 /\ Len(hints_and_subseq) % 2 = 0)
        THEN [ok |-> FALSE, err |-> "AssertionError", enc |-> DefaultEncoding]
        ELSE encode_list(tinfo, dict, pad_state, encode_list_format, max_len,
                         padding_token_id, padding_token)

\* What a call that returned an Encoding shows of it
Shown(enc) ==
    [ids |-> enc.ids, attention_mask |-> enc.attention_mask,
     sequence_ids |-> sequence_ids(enc)]

MaxText == 3       \* characters and directives in the text given to encode
MaxSegs == 2       \* typed inputs given to encode_list
MaxLen == 2        \* largest max_len

Lexemes == {Hint(Names[1]), Hint(Names[2]), Char("a"), Char("P")}

EncodeTexts == SeqsUpTo(Lexemes, MaxText)

MaxLens == {NoneVal, 1, MaxLen}

TypedInputs ==
    {TypedInput(n, <<"a">>, NoneVal) : n \in Range(Names)}
    \cup {TypedInput(n, <<"a", "P">>, m) : n \in Range(Names), m \in {NoneVal, 1}}

TypedLists == SeqsUpTo(TypedInputs, MaxSegs)

\* (padding_token_id, padding_token) as encode passes them on: its defaults
\* 0 and "<PAD>", a special token by its text, an ID alone
EncodePadArgs ==
    {[id |-> 0, token |-> Text("<PAD>")], [id |-> 0, token |-> Text("P")],
     [id |-> 0, token |-> NoText]}

\* (padding_token_id, padding_token) for encode_list: its defaults None and
\* "<PAD>", neither, a special token by its text
ListPadArgs ==
    {[id |-> NoneVal, token |-> Text("<PAD>")], [id |-> NoneVal, token |-> NoText],
     [id |-> NoneVal, token |-> Text("P")]}

DecodeLists == SeqsUpTo(0..MaxDecodeId, MaxIds)

QueryTexts == SpecialTexts \cup VocabTexts \cup {"<PAD>"}

TypeArgs == {NoType} \cup {Type(n) : n \in Range(Names) \cup {"XX"}}

\* A read leaves the tokenizer as it was, so the state a chain of reads ends
\* in is the state its last read reaches alone: reads are not chained
IsRead(op) == op \in {"decode", "token_to_id", "id_to_token", "encode", "encode_list"}

ReadBuild ==
    /\ ~built
    /\ last.op = "init"
    /\ \E descs \in DescriptorsOver(LifeSrcJsons, LifeSrcJsons), std \in LifeSpecialDicts :
          FreshBuild(descs, std, NoList, NoneVal, NoneVal)

DecodeOver(lists) ==
    /\ built
    /\ ~IsRead(last.op)
    /\ \E ids \in lists, skip_special_tokens \in BOOLEAN :
          last' = [op |-> "decode", ok |-> TRUE, err |-> "none",
                   ret |-> decode(decoder_dict, ids, skip_special_tokens),
                   args |-> [ids |-> ids, skip_special_tokens |-> skip_special_tokens]]
    /\ UNCHANGED <<built, tokenizers_info, special_tokens_dict, max_possible_token_id,
                   max_special_token_id, decoder_dict, saved, rm, padding>>

Decode == DecodeOver(DecodeLists)

TokenToIdOver(texts) ==
    /\ built
    /\ ~IsRead(last.op)
    /\ \E token \in texts, t_type \in TypeArgs :
          LET r == token_to_id(tokenizers_info, token, t_type)
          IN  last' = [op |-> "token_to_id", ok |-> r.ok, err |-> r.err, ret |-> r.ret,
                       args |-> [token |-> token, t_type |-> t_type]]
    /\ UNCHANGED <<built, tokenizers_info, special_tokens_dict, max_possible_token_id,
                   max_special_token_id, decoder_dict, saved, rm, padding>>

TokenToId == TokenToIdOver(QueryTexts)

IdToToken ==
    /\ built
    /\ ~IsRead(last.op)
    /\ \E id \in {0, MaxDecodeId} :
          last' = [op |-> "id_to_token", ok |-> TRUE, err |-> "none",
                   ret |-> id_to_token(decoder_dict, id), args |-> [id |-> id]]
    /\ UNCHANGED <<built, tokenizers_info, special_tokens_dict, max_possible_token_id,
                   max_special_token_id, decoder_dict, saved, rm, padding>>

EncodeOver(texts) ==
    /\ built
    /\ ~IsRead(last.op)
    /\ \E sequence \in texts, max_len \in MaxLens, p \in EncodePadArgs :
          LET r == encode(tokenizers_info, decoder_dict, padding, sequence, max_len,
                          p.id, p.token)
          IN  last' = [op |-> "encode", ok |-> r.ok, err |-> r.err, ret |-> Shown(r.enc),
                       args |-> [sequence |-> sequence, max_len |-> max_len,
                                 padding_token_id |-> p.id, padding_token |-> p.token]]
    /\ UNCHANGED <<built, tokenizers_info, special_tokens_dict, max_possible_token_id,
                   max_special_token_id, decoder_dict, saved, rm, padding>>

Encode == EncodeOver(EncodeTexts)

\* encode_list as it would be if it kept the max_len it worked with
EncodeListOver_KeepsMaxLen(lists) ==
    /\ built
    /\ ~IsRead(last.op)
    /\ \E typed_input_list \in lists, max_len \in MaxLens, p \in ListPadArgs :
          LET r == encode_list(tokenizers_info, decoder_dict, padding, typed_input_list,
                               max_len, p.id, p.token)
          IN  /\ last' = [op |-> "encode_list", ok |-> r.ok, err |-> r.err,
                          ret |-> Shown(r.enc),
                          args |-> [typed_input_list |-> typed_input_list,
                                    max_len |-> max_len,
                                    padding_token_id |-> p.id, padding_token |-> p.token]]
              /\ padding' = [padding EXCEPT
                                !.max_len = get_expected_max_len(padding.max_len, max_len)]
    /\ UNCHANGED <<built, tokenizers_info, special_tokens_dict, max_possible_token_id,
                   max_special_token_id, decoder_dict, saved, rm>>

\* encode_list, recorded as the last call
EncodeListOver(lists) ==
    /\ built
    /\ ~IsRead(last.op)
    /\ \E typed_input_list \in lists, max_len \in MaxLens, p \in ListPadArgs :
          LET r == encode_list(tokenizers_info, decoder_dict, padding, typed_input_list,
                               max_len, p.id, p.token)
          IN  last' = [op |-> "encode_list", ok |-> r.ok, err |-> r.err,
                       ret |-> Shown(r.enc),
                       args |-> [typed_input_list |-> typed_input_list,
                                 max_len |-> max_len,
                                 padding_token_id |-> p.id, padding_token |-> p.token]]
    /\ UNCHANGED <<built, tokenizers_info, special_tokens_dict, max_possible_token_id,
                   max_special_token_id, decoder_dict, saved, rm, padding>>

EncodeList == EncodeListOver(TypedLists)

ReadNext ==
    \/ ReadBuild
    \/ Decode
    \/ TokenToId
    \/ IdToToken
    \/ Encode
    \/ EncodeList

SpecRead == Init /\ [][ReadNext]_vars

\* enable_padding(pad_id, pad_token, length), direction and pad_to_multiple_of
\* left at their defaults
enable_padding(tinfo, dict, pad_state, pad_id, pad_token, length) ==
    LET found == token_to_id(tinfo, pad_token.text, NoType)
        new_id == IF pad_id = NoneVal THEN found.ret ELSE pad_id
        new_token == IF ~pad_token.given THEN id_to_token(dict, pad_id) ELSE pad_token
    IN  IF ~pad_token.given /\ pad_id = NoneVal
        THEN [ok |-> FALSE, err |-> "NoPadGiven", state |-> pad_state]
        ELSE IF pad_token.given /\ ~found.ok
        THEN [ok |-> FALSE, err |-> found.err, state |-> pad_state]
        ELSE IF pad_token.given /\ pad_id # NoneVal /\ found.ret # pad_id
        THEN [ok |-> FALSE, err |-> "PadMismatch", state |-> pad_state]
        ELSE [ok |-> TRUE, err |-> "none",
              state |-> [max_len |-> length, pad_token_id |-> new_id,
                         pad_token |-> new_token]]

\* enable_truncation(max_length), stride, strategy and direction left at their
\* defaults
enable_truncation(pad_state, max_length) == [pad_state EXCEPT !.max_len = max_length]

PadIdArgs == {NoneVal, 0}

PadTokenArgs == {NoText, Text("<PAD>"), Text("P")}

PadLengths == {NoneVal, MaxLen}

TruncationLengths == {1, MaxLen}

EnablePadding ==
    /\ built
    /\ ~IsRead(last.op)
    /\ \E pad_id \in PadIdArgs, pad_token \in PadTokenArgs, length \in PadLengths :
          LET r == enable_padding(tokenizers_info, decoder_dict, padding, pad_id,
                                  pad_token, length)
          IN  /\ padding' = r.state
              /\ last' = [op |-> "enable_padding", ok |-> r.ok, err |-> r.err, ret |-> 0,
                          args |-> [pad_id |-> pad_id, pad_token |-> pad_token,
                                    length |-> length]]
    /\ UNCHANGED <<built, tokenizers_info, special_tokens_dict, max_possible_token_id,
                   max_special_token_id, decoder_dict, saved, rm>>

EnableTruncation ==
    /\ built
    /\ ~IsRead(last.op)
    /\ \E max_length \in TruncationLengths :
          /\ padding' = enable_truncation(padding, max_length)
          /\ last' = [op |-> "enable_truncation", ok |-> TRUE, err |-> "none", ret |-> 0,
                      args |-> [max_length |-> max_length]]
    /\ UNCHANGED <<built, tokenizers_info, special_tokens_dict, max_possible_token_id,
                   max_special_token_id, decoder_dict, saved, rm>>

\* The texts and the typed lists encoded once padding and truncation are set
PadTexts ==
    {<<Hint(Names[1]), Char("a")>>, <<Hint(Names[1]), Char("a"), Char("P")>>,
     <<Hint(Names[1]), Char("a"), Hint(Names[1]), Char("a"), Char("P")>>}

PadLists ==
    {<<TypedInput(Names[1], <<"a">>, NoneVal)>>,
     <<TypedInput(Names[1], <<"a", "P">>, NoneVal)>>,
     <<TypedInput(Names[1], <<"a">>, NoneVal), TypedInput(Names[1], <<"a", "P">>, NoneVal)>>}

PadEncode == EncodeOver(PadTexts)

PadEncodeList == EncodeListOver(PadLists)

PadDecode == DecodeOver({<<0>>, <<0, MaxDecodeId>>})

PadTokenToId == TokenToIdOver({"P", "a"})

PadNext ==
    \/ ReadBuild
    \/ EnablePadding
    \/ EnableTruncation
    \/ PadEncode
    \/ PadEncodeList
    \/ PadDecode
    \/ PadTokenToId
    \/ IdToToken

SpecPad == Init /\ [][PadNext]_vars

(***************************************************************************)
(* Saving and loading a tokenizer that was built, extended and given       *)
(* padding and truncation settings.                                        *)
(***************************************************************************)
StoreSpecialDicts == {NoList, Given(<<"P">>)}

StoreSpecialLimits == {NoneVal, MaxLimit}

StoreAddLists == {<<"N">>}

StoreBuild ==
    /\ ~built
    /\ last.op = "init"
    /\ \E descs \in DescriptorsOver(LifeSrcJsons, LifeSrcJsons), std \in StoreSpecialDicts,
          maxPossible \in PossibleLimits, maxSpecial \in StoreSpecialLimits :
          FreshBuild(descs, std, NoList, maxPossible, maxSpecial)

StoreAdd ==
    /\ built
    /\ \E tokens \in StoreAddLists :
          \E order \in Orders(NewTokens(tokenizers_info, tokens)) :
              AddSpecialTokens(tokens, order)

\* ModularTokenizer.load(path): the constructor is given the descriptors and
\* the two limits of config.yaml and no special tokens
LoadSaved ==
    /\ built
    /\ saved.exists
    /\ Load(NoList, NoList, saved.max_possible_token_id)

StoreNext ==
    \/ StoreBuild
    \/ StoreAdd
    \/ EnablePadding
    \/ EnableTruncation
    \/ Save
    \/ LoadSaved

SpecStore == Init /\ [][StoreNext]_vars

(***************************************************************************)
(* Consistency of documents that were adjusted elsewhere:                  *)
(* load_from_jsons(tokenizers_info) hands the documents to the constructor *)
(* as they are (load_adjusted_jsons=True), which runs diagnose on them;    *)
(* is_consistent() runs it again on the object.                            *)
(***************************************************************************)
MaxLoadedId == 2   \* largest ID in a document given to load_from_jsons

LoadedTexts == {"P", "a", "b"}

\* a document whose vocabulary maps some of the texts to IDs; P, when
\* present, is its added token
LoadedJsons ==
    {[added_tokens |-> IF "P" \in DOMAIN v
                       THEN <<[id |-> v["P"], content |-> "P"]>> ELSE <<>>,
      vocab |-> v] :
        v \in UNION {[S -> 0..MaxLoadedId] : S \in (SUBSET LoadedTexts) \ {{}}}}

load_from_jsons(descs) ==
    LET r == Construct(descs, TRUE, NoList, NoList, NoneVal, NoneVal)
    IN  /\ built' = r.ok
        /\ tokenizers_info' = r.tinfo
        /\ decoder_dict' = r.decoder
        /\ last' = [op |-> "load_from_jsons", ok |-> r.ok, err |-> r.err, ret |-> 0,
                    args |-> [descs |-> descs]]
        /\ UNCHANGED <<special_tokens_dict, max_possible_token_id,
                       max_special_token_id, saved, rm, padding>>

LoadFromJsons ==
    /\ ~built
    /\ last.op = "init"
    /\ \E descs \in DescriptorsOver(LoadedJsons, LoadedJsons) : load_from_jsons(descs)

IsConsistent ==
    /\ built
    /\ last.op # "is_consistent"
    /\ last' = [op |-> "is_consistent", ok |-> TRUE, err |-> "none",
                ret |-> is_consistent(tokenizers_info), args |-> <<>>]
    /\ UNCHANGED <<built, tokenizers_info, special_tokens_dict, max_possible_token_id,
                   max_special_token_id, decoder_dict, saved, rm, padding>>

ConsistencyNext ==
    \/ LoadFromJsons
    \/ IsConsistent

SpecConsistency == Init /\ [][ConsistencyNext]_vars

(***************************************************************************)
(* save and load over descriptors whose paths lie in different directories *)
(* and whose json_path may be None or missing.                             *)
(***************************************************************************)
\* source files in two directories; two of them have the same file name
SourcePaths == {PathOf(<<"d1", "x.json">>), PathOf(<<"d2", "x.json">>),
                PathOf(<<"d2", "y.json">>)}

\* json_path of a descriptor given to load_from_jsons
OptionalPaths == {KeyAbsent, NonePath, PathOf(<<"d1", "x.json">>)}

\* documents adjusted beforehand to one ID space
AdjustedJsons ==
    <<[added_tokens |-> <<[id |-> 0, content |-> "P"]>>, vocab |-> SrcVocab(<<"P", "a">>)],
      [added_tokens |-> <<[id |-> 0, content |-> "P"]>>,
       vocab |-> Update(SrcVocab(<<"P">>), [t \in {"b"} |-> 2])]>>

\* one or two descriptors, the k-th over the k-th set of documents, with
\* every choice of the two paths
DescriptorsAt(jsons, others, json_paths, modular_paths) ==
    {<<[name |-> Names[1], json_path |-> p, modular_json_path |-> m, json |-> j]>> :
        j \in jsons, p \in json_paths, m \in modular_paths}
    \cup
    {<<[name |-> Names[1], json_path |-> p[1], modular_json_path |-> m[1], json |-> j1],
       [name |-> Names[2], json_path |-> p[2], modular_json_path |-> m[2], json |-> j2]>> :
        j1 \in jsons, j2 \in others, p \in json_paths \X json_paths,
        m \in modular_paths \X modular_paths}

SaveBuild ==
    /\ ~built
    /\ last.op = "init"
    /\ \E descs \in DescriptorsAt(LifeSrcJsons, LifeSrcJsons, SourcePaths,
                                  {ModularPaths[1]}),
          std \in StoreSpecialDicts :
          FreshBuild(descs, std, NoList, NoneVal, NoneVal)

SaveLoadFromJsons ==
    /\ ~built
    /\ last.op = "init"
    /\ \E descs \in DescriptorsAt({AdjustedJsons[1]}, {AdjustedJsons[2]}, OptionalPaths,
                                  {ModularPaths[1], ModularPaths[2]}) :
          load_from_jsons(descs)

SaveNext ==
    \/ SaveBuild
    \/ SaveLoadFromJsons
    \/ Save
    \/ LoadSaved

SpecSave == Init /\ [][SaveNext]_vars

(***************************************************************************)
(* Vocabulary of the properties.                                           *)
(***************************************************************************)
Subs == DOMAIN tokenizers_info

\* the special tokens of a sub-tokenizer, as the set of its records
SpecialRecords(k) == Range(tokenizers_info[k].json.added_tokens)

SpecialIdsOf(k) == Range(SpecialVocab(tokenizers_info[k].json))

RegularIdsOf(k) == RegularIds(tokenizers_info[k].json)

AllSpecialIds == UNION {SpecialIdsOf(k) : k \in Subs}

AllRegularIds == UNION {RegularIdsOf(k) : k \in Subs}

AddedSome == last.op = "add" /\ last.ok /\ last.ret > 0

(***************************************************************************)
(* C1.  After a successful construction (fresh build or load) and after    *)
(* any sequence of successful add_special_tokens calls, any two            *)
(* sub-tokenizers have the same special tokens: the same records and the   *)
(* same text -> ID map in their vocabularies.                              *)
(***************************************************************************)
C1_SameSpecials ==
    built =>
        \A a, b \in Subs :
            /\ SpecialRecords(a) = SpecialRecords(b)
            /\ SpecialVocab(tokenizers_info[a].json) = SpecialVocab(tokenizers_info[b].json)
            /\ \A r \in SpecialRecords(a) :
                  /\ r.content \in DOMAIN tokenizers_info[b].json.vocab
                  /\ tokenizers_info[b].json.vocab[r.content] = r.id

C1_Witness ==
    /\ built
    /\ Len(tokenizers_info) = 2
    /\ AddedSome
    /\ Cardinality(SpecialRecords(2)) >= 2

(***************************************************************************)
(* C2.  After a successful construction and after any sequence of          *)
(* successful add_special_tokens calls, the regular IDs of two distinct    *)
(* sub-tokenizers are disjoint and no regular ID is a special ID.          *)
(***************************************************************************)
C2_DisjointIds ==
    built =>
        /\ \A a, b \in Subs : a # b => RegularIdsOf(a) \cap RegularIdsOf(b) = {}
        /\ AllRegularIds \cap AllSpecialIds = {}

C2_Witness ==
    /\ built
    /\ Len(tokenizers_info) = 2
    /\ AddedSome
    /\ max_special_token_id = NoneVal
    /\ RegularIdsOf(1) # {}
    /\ RegularIdsOf(2) # {}

C4_AddKeepsIds ==
    [][(last'.op = "add" /\ last'.ok) =>
          /\ DOMAIN tokenizers_info' = DOMAIN tokenizers_info
          /\ \A k \in Subs :
                \A t \in DOMAIN tokenizers_info[k].json.vocab :
                    /\ t \in DOMAIN tokenizers_info'[k].json.vocab
                    /\ tokenizers_info'[k].json.vocab[t] = tokenizers_info[k].json.vocab[t]
          /\ \A i \in DOMAIN decoder_dict :
                /\ i \in DOMAIN decoder_dict'
                /\ decoder_dict'[i] = decoder_dict[i]]_vars

C4_Witness ==
    /\ AddedSome
    /\ last.ret = 2
    /\ Len(tokenizers_info) = 2

(***************************************************************************)
(* C5.  remap_vocab keeps the order of the regular tokens (the tokens of   *)
(* the input vocabulary that no special structure names): a smaller        *)
(* original ID gives a smaller new ID; the new regular IDs are exactly     *)
(* start .. start+n-1 for the n regular tokens, start being the given      *)
(* starting index or, without one, the largest ID of a special token + 1   *)
(* (0 when there is no special structure); every special token has the ID  *)
(* its structure gives it (one of them, when several structures name it).  *)
(***************************************************************************)
C5_RemapKeepsOrder ==
    (rm.called /\ rm.out.ok) =>
        LET special == {rm.structs[i].content : i \in DOMAIN rm.structs}
            regular == (DOMAIN rm.vocab) \ special
            n == Cardinality(regular)
            start == IF rm.start # NoneVal THEN rm.start
                     ELSE IF rm.structs = <<>> THEN 0
                     ELSE Max({rm.out.vocab[c] : c \in special}) + 1
        IN  /\ \A x, y \in regular :
                  rm.vocab[x] < rm.vocab[y] => rm.out.vocab[x] < rm.out.vocab[y]
            /\ regular \subseteq DOMAIN rm.out.vocab
            /\ {rm.out.vocab[x] : x \in regular} = start..(start + n - 1)
            /\ rm.out.next = start + n
            /\ \A c \in special :
                  /\ c \in DOMAIN rm.out.vocab
                  /\ rm.out.vocab[c] \in {rm.structs[i].id : i \in {j \in DOMAIN rm.structs :
                                                                  rm.structs[j].content = c}}

C5_Witness ==
    /\ rm.called
    /\ rm.out.ok
    /\ Len(rm.structs) = 2
    /\ rm.structs[1].content # rm.structs[2].content
    /\ rm.start = NoneVal
    /\ DOMAIN rm.vocab = {"P", "a", "b"}
    /\ rm.vocab["b"] < rm.vocab["a"]
    /\ rm.vocab["a"] - rm.vocab["b"] > 1
    /\ rm.out.vocab["b"] + 1 = rm.out.vocab["a"]

(***************************************************************************)
(* The common special tokens of a fresh build as the gathering rule gives  *)
(* them: special_tokens_dict's values, then additional_tokens_list, then   *)
(* each sub-tokenizer's added tokens in listed order, each text once, at   *)
(* its first place.                                                        *)
(***************************************************************************)
RECURSIVE Dedup(_)
Dedup(s) ==
    IF s = <<>> THEN <<>>
    ELSE LET front == Dedup(SubSeq(s, 1, Len(s) - 1))
             x == s[Len(s)]
         IN  IF x \in Range(front) THEN front ELSE Append(front, x)

RECURSIVE AddedOfAll(_, _)
AddedOfAll(descs, k) ==
    IF k > Len(descs) THEN <<>>
    ELSE get_subtokenizer_added_tokens(descs[k].json) \o AddedOfAll(descs, k + 1)

CommonSpecials(a) ==
    Dedup((IF a.std.given THEN a.std.toks ELSE <<>>)
              \o (IF a.additional.given THEN a.additional.toks ELSE <<>>)
              \o AddedOfAll(a.descs, 1))

FreshBuilt == last.op = "build" /\ last.ok

(***************************************************************************)
(* C6.  After a fresh build without max_special_token_id, the n common    *)
(* special tokens have the IDs 0 .. n-1 in gathering order, in every       *)
(* sub-tokenizer; the regular IDs of the first sub-tokenizer start at n,   *)
(* those of each later one at the largest regular ID of the one before     *)
(* + 1; the IDs in use are exactly 0 .. max, without a hole.               *)
(***************************************************************************)
C6_DenseLayout ==
    (FreshBuilt /\ last.args.max_special_token_id = NoneVal) =>
        LET common == CommonSpecials(last.args)
            n == Len(common)
            ids == AllSpecialIds \cup AllRegularIds
        IN  /\ \A k \in Subs :
                  /\ SpecialRecords(k) = {[id |-> i - 1, content |-> common[i]] : i \in 1..n}
                  /\ \A i \in 1..n :
                        /\ common[i] \in DOMAIN tokenizers_info[k].json.vocab
                        /\ tokenizers_info[k].json.vocab[common[i]] = i - 1
            /\ Min(RegularIdsOf(1)) = n
            /\ \A k \in Subs \ {1} : Min(RegularIdsOf(k)) = Max(RegularIdsOf(k - 1)) + 1
            /\ ids = 0..Max(ids)

(***************************************************************************)
(* C7.  A fresh build with max_special_token_id set and n common special   *)
(* tokens is refused for its special tokens exactly when                   *)
(* n > max_special_token_id + 1; a build that succeeds starts the regular  *)
(* IDs of the first sub-tokenizer at max_special_token_id + 1.             *)
(***************************************************************************)
C7_SpecialLimitBoundary ==
    (last.op = "build" /\ last.args.max_special_token_id # NoneVal
        /\ Len(CommonSpecials(last.args)) > 0) =>
        LET n == Len(CommonSpecials(last.args))
            limit == last.args.max_special_token_id
        IN  /\ (last.err = "ConfigError") <=> (n > limit + 1)
            /\ last.ok => Min(RegularIdsOf(1)) = limit + 1

(***************************************************************************)
(* C8.  A construction (fresh build or load) given max_possible_token_id,  *)
(* whose arguments build a tokenizer when no such limit is given, succeeds *)
(* exactly when the largest ID of that tokenizer's vocabularies is at most *)
(* max_possible_token_id, and otherwise fails for the exceeded budget.     *)
(***************************************************************************)
C8_PossibleLimit ==
    (last.op \in {"build", "load"} /\ last.args.max_possible_token_id # NoneVal) =>
        LET a == last.args
            unlimited == Construct(a.descs, last.op = "load", a.std, a.additional,
                                   NoneVal, a.max_special_token_id)
            largest == Max(UNION {Range(unlimited.tinfo[k].json.vocab) :
                                      k \in DOMAIN unlimited.tinfo})
        IN  unlimited.ok =>
                /\ last.ok <=> (largest <= a.max_possible_token_id)
                /\ ~last.ok => last.err = "BudgetExceeded"

C8_Witness ==
    /\ last.op = "load"
    /\ last.args.max_possible_token_id # NoneVal
    /\ ~last.ok
    /\ last.err = "BudgetExceeded"
    /\ max_possible_token_id = NoneVal

(***************************************************************************)
(* C9.  A construction on the load path fails whenever special_tokens_dict *)
(* or additional_tokens_list is given; a load that succeeds has remapped   *)
(* nothing: every sub-tokenizer has the text -> ID map and the special     *)
(* records of the JSON document it was loaded from.                        *)
(***************************************************************************)
C9_LoadKeepsIds ==
    last.op = "load" =>
        /\ (last.args.std.given \/ last.args.additional.given) => ~last.ok
        /\ last.ok =>
              /\ DOMAIN tokenizers_info = DOMAIN last.args.descs
              /\ \A k \in Subs :
                    /\ tokenizers_info[k].json.vocab = last.args.descs[k].json.vocab
                    /\ SpecialRecords(k) = Range(last.args.descs[k].json.added_tokens)

C9_Witness ==
    /\ last.op = "load"
    /\ last.ok
    /\ Len(tokenizers_info) = 2
    /\ Cardinality(SpecialRecords(2)) >= 2
    /\ Min(RegularIdsOf(2)) > Max(RegularIdsOf(1))

(***************************************************************************)
(* C10.  add_special_tokens with max_special_token_id set and k > 0 texts  *)
(* that are neither special nor regular tokens: with start the largest     *)
(* special ID + 1, the call succeeds exactly when                          *)
(* max_special_token_id + 1 - start >= k and otherwise fails for the       *)
(* exceeded budget; on success the new texts have the IDs                  *)
(* start .. start+k-1 in every sub-tokenizer.                              *)
(***************************************************************************)
C10_AddCapacity ==
    [][LET new == Range(last'.args.tokens) \ {r.content : r \in SpecialRecords(1)}
           k == Cardinality(new)
           start == Max(AllSpecialIds) + 1
       IN  (/\ last'.op = "add"
            /\ max_special_token_id # NoneVal
            /\ k > 0
            /\ \A j \in Subs : new \cap DOMAIN tokenizers_info[j].json.vocab = {}) =>
               /\ last'.ok <=> (max_special_token_id + 1 - start >= k)
               /\ ~last'.ok => last'.err = "BudgetExceeded"
               /\ last'.ok =>
                     \A j \in Subs :
                         /\ new \subseteq DOMAIN tokenizers_info'[j].json.vocab
                         /\ {tokenizers_info'[j].json.vocab[t] : t \in new}
                                = start..(start + k - 1)]_vars

(***************************************************************************)
(* C11.  add_special_tokens without max_special_token_id and with k > 0    *)
(* texts that are neither special nor regular tokens: with start the       *)
(* largest ID of any token + 1, the call succeeds when no                  *)
(* max_possible_token_id is set, and with one set succeeds exactly when    *)
(* the IDs start .. max_possible_token_id hold k tokens and otherwise      *)
(* fails for the exceeded budget; on success the new texts have the IDs    *)
(* start .. start+k-1 in every sub-tokenizer.                              *)
(***************************************************************************)
C11_AddAfterLargest ==
    [][LET new == Range(last'.args.tokens) \ {r.content : r \in SpecialRecords(1)}
           k == Cardinality(new)
           start == Max(AllSpecialIds \cup AllRegularIds) + 1
       IN  (/\ last'.op = "add"
            /\ max_special_token_id = NoneVal
            /\ k > 0
            /\ \A j \in Subs : new \cap DOMAIN tokenizers_info[j].json.vocab = {}) =>
               /\ max_possible_token_id = NoneVal => last'.ok
               /\ max_possible_token_id # NoneVal =>
                     /\ last'.ok <=> (max_possible_token_id + 1 - start >= k)
                     /\ ~last'.ok => last'.err = "BudgetExceeded"
               /\ last'.ok =>
                     \A j \in Subs :
                         /\ new \subseteq DOMAIN tokenizers_info'[j].json.vocab
                         /\ {tokenizers_info'[j].json.vocab[t] : t \in new}
                                = start..(start + k - 1)]_vars

C13_AddCountsNew ==
    [][last'.op = "add" =>
          LET before == {r.content : r \in SpecialRecords(1)}
              after == {r.content : r \in Range(tokenizers_info'[1].json.added_tokens)}
          IN  /\ Range(last'.args.tokens) \subseteq before =>
                    /\ last'.ok
                    /\ last'.ret = 0
                    /\ tokenizers_info' = tokenizers_info
                    /\ decoder_dict' = decoder_dict
              /\ last'.ok =>
                    /\ last'.ret = Cardinality(after \ before)
                    /\ after \ before = Range(last'.args.tokens) \ before
              /\ (last.op = "add" /\ last.ok /\ last'.args.tokens = last.args.tokens) =>
                    (last'.ok /\ last'.ret = 0)]_vars

C13_Witness ==
    /\ last.op = "add"
    /\ last.ok
    /\ last.ret = 0
    /\ Range(last.args.tokens) = {"N", "M"}
    /\ Range(last.args.tokens) \subseteq {r.content : r \in SpecialRecords(1)}

(***************************************************************************)
(* C14.  A failed add_special_tokens leaves the tokenizer as it was: no    *)
(* sub-tokenizer's document (added tokens, vocabulary) and no entry of the *)
(* decoder index differs from before the call.                             *)
(***************************************************************************)
C14_FailedAddKeepsState ==
    [][(last'.op = "add" /\ ~last'.ok) =>
          /\ tokenizers_info' = tokenizers_info
          /\ decoder_dict' = decoder_dict
          /\ special_tokens_dict' = special_tokens_dict
          /\ max_possible_token_id' = max_possible_token_id
          /\ max_special_token_id' = max_special_token_id]_vars

C14_Witness ==
    /\ last.op = "add"
    /\ ~last.ok
    /\ last.err = "BudgetExceeded"
    /\ Len(tokenizers_info) = 2
    /\ Len(last.args.order) = 2

(***************************************************************************)
(* C15.  After a construction and after every successful                   *)
(* add_special_tokens the decoder index holds exactly the entries of the   *)
(* sub-tokenizers: every special ID with its token and is_special = TRUE,  *)
(* every regular ID of every sub-tokenizer with its token and              *)
(* is_special = FALSE, and no other ID.                                    *)
(***************************************************************************)
C15_DecoderIsUnion ==
    built =>
        /\ DOMAIN decoder_dict = AllSpecialIds \cup AllRegularIds
        /\ \A k \in Subs :
              /\ \A r \in SpecialRecords(k) :
                    /\ r.id \in DOMAIN decoder_dict
                    /\ decoder_dict[r.id] = [token |-> r.content, is_special |-> TRUE]
              /\ \A t \in get_subtokenizer_regular_tokens(tokenizers_info[k].json) :
                    LET i == tokenizers_info[k].json.vocab[t]
                    IN  /\ i \in DOMAIN decoder_dict
                        /\ decoder_dict[i] = [token |-> t, is_special |-> FALSE]

C15_Witness ==
    /\ built
    /\ AddedSome
    /\ Len(tokenizers_info) = 2
    /\ max_special_token_id = NoneVal
    /\ Cardinality(DOMAIN decoder_dict) >= 6

(***************************************************************************)
(* C16: decode(ids, skip_special_tokens) returns, whichever value          *)
(* skip_special_tokens has, the texts of the listed IDs joined in their    *)
(* order, an ID the decoder index does not know being rendered as          *)
(* <@TOKEN_MISSING-{id}> at its place; with skip_special_tokens = TRUE the  *)
(* special tokens, and only they, are left out.                            *)
(***************************************************************************)
C16_DecodeRendersUnknown ==
    last.op = "decode" =>
        LET ids == last.args.ids
            skip == last.args.skip_special_tokens
        IN  last.ret =
              Join([i \in DOMAIN ids |->
                      IF ids[i] \notin DOMAIN decoder_dict THEN MissingText(ids[i])
                      ELSE IF skip /\ ids[i] \in AllSpecialIds THEN ""
                      ELSE decoder_dict[ids[i]].token])

(***************************************************************************)
(* C17: token_to_id(token) without a domain returns the one ID the         *)
(* sub-tokenizers that know the text give it, returns none when no         *)
(* sub-tokenizer knows it, and fails with AmbiguousToken when two of them  *)
(* give it different IDs; token_to_id(token, t_type) with the name of a    *)
(* sub-tokenizer returns the ID that sub-tokenizer gives the text.         *)
(***************************************************************************)
IdsOfText(token) ==
    {tokenizers_info[k].json.vocab[token] :
        k \in {j \in Subs : token \in DOMAIN tokenizers_info[j].json.vocab}}

C18_PreludeRefused ==
    last.op = "encode"
    /\ (last.args.sequence = <<>> \/ ~last.args.sequence[1].hint)
    => ~last.ok /\ last.err = "AssertionError"

(***************************************************************************)
(* C19: for a list of typed segments encoded without a max_len, the ids of *)
(* the merged encoding are the ids of the segments' encodings one after    *)
(* the other in the order of the list, and every token of the k-th segment *)
(* (counted from 1) carries the sequence ID k, also when two segments name *)
(* the same sub-tokenizer.                                                 *)
(***************************************************************************)
SegmentIds(inpt) ==
    LET e == EngineEncode(tokenizers_info[TypeIndex(tokenizers_info, inpt.input_type)].json,
                          inpt.input_string).enc.ids
    IN  IF inpt.max_len # NoneVal /\ inpt.max_len < Len(e) THEN SubSeq(e, 1, inpt.max_len)
        ELSE e

RECURSIVE SegmentsIds(_, _)
SegmentsIds(list, k) ==
    IF k > Len(list) THEN <<>> ELSE SegmentIds(list[k]) \o SegmentsIds(list, k + 1)

RECURSIVE SegmentsStamps(_, _)
SegmentsStamps(list, k) ==
    IF k > Len(list) THEN <<>>
    ELSE [i \in DOMAIN SegmentIds(list[k]) |-> k] \o SegmentsStamps(list, k + 1)

SegmentsEncoded ==
    /\ last.op = "encode_list"
    /\ last.ok
    /\ get_expected_max_len(padding.max_len, last.args.max_len) = NoneVal

C19_SegmentsInOrder ==
    SegmentsEncoded =>
        /\ last.ret.ids = SegmentsIds(last.args.typed_input_list, 1)
        /\ last.ret.sequence_ids = SegmentsStamps(last.args.typed_input_list, 1)

(***************************************************************************)
(* C20: whenever the effective max_len (the caller's, else the one the     *)
(* tokenizer holds) is set, the encoding encode / encode_list return is    *)
(* the merged encoding cut on the right to max_len tokens, so never longer *)
(* than max_len; when the pad ID and the pad token both resolve it is      *)
(* exactly max_len long, the kept tokens with attention mask 1 followed by *)
(* the pad ID with attention mask 0.                                       *)
(***************************************************************************)
\* the typed segments of the last encode / encode_list call
SegmentsOf(call) ==
    IF call.op = "encode_list" THEN call.args.typed_input_list
    ELSE LET h == Tail(re_split(call.args.sequence))
         IN  [j \in 1..(Len(h) \div 2) |-> TypedInput(h[2 * j - 1][1], h[2 * j], NoneVal)]

Encoded == last.op \in {"encode", "encode_list"} /\ last.ok

EffectiveMaxLen == get_expected_max_len(padding.max_len, last.args.max_len)

\* the pad identifiers the call works with: the caller's when the caller
\* gives one, else those the tokenizer holds
PadFromState == last.args.padding_token_id = NoneVal /\ ~last.args.padding_token.given

PadTokenUsed == IF PadFromState THEN padding.pad_token ELSE last.args.padding_token

PadIdUsed ==
    IF PadTokenUsed.given
    THEN IF IdsOfText(PadTokenUsed.text) = {} THEN NoneVal
         ELSE CHOOSE i \in IdsOfText(PadTokenUsed.text) : TRUE
    ELSE IF PadFromState THEN padding.pad_token_id ELSE last.args.padding_token_id

PadResolves ==
    /\ PadIdUsed # NoneVal
    /\ PadTokenUsed.given \/ PadIdUsed \in DOMAIN decoder_dict

C20_LengthWithinMaxLen ==
    Encoded /\ EffectiveMaxLen # NoneVal =>
        LET full == SegmentsIds(SegmentsOf(last), 1)
            kept == SubSeq(full, 1, Min({Len(full), EffectiveMaxLen}))
            ids == last.ret.ids
            mask == last.ret.attention_mask
        IN  /\ Len(ids) <= EffectiveMaxLen
            /\ Len(ids) >= Len(kept)
            /\ SubSeq(ids, 1, Len(kept)) = kept
            /\ \A i \in 1..Len(kept) : mask[i] = 1
            /\ PadResolves =>
                  /\ Len(ids) = EffectiveMaxLen
                  /\ \A i \in (Len(kept) + 1)..Len(ids) : ids[i] = PadIdUsed /\ mask[i] = 0

\* max_len comes from the tokenizer, the pad identifiers from the caller: a
\* one-token encoding was padded; and a call whose own max_len cut the
\* encoding is covered by the same formula
C20_Witness ==
    /\ Encoded
    /\ last.args.max_len = NoneVal
    /\ padding.max_len = MaxLen
    /\ PadResolves
    /\ Len(SegmentsIds(SegmentsOf(last), 1)) = 1
    /\ Len(last.ret.ids) = MaxLen
    /\ last.ret.attention_mask[MaxLen] = 0

(***************************************************************************)
(* C21: pad resolution in encode / encode_list.  When the caller supplies  *)
(* neither a pad token nor a pad ID (the arguments are left at their       *)
(* defaults, or both are None), the pad token and pad ID the tokenizer     *)
(* stores are the ones used; when one of the two is supplied the other is  *)
(* derived from it; the encoding is padded to max_len with the resolved    *)
(* pad ID when both are found and returned unpadded when one is missing.   *)
(***************************************************************************)
\* the values the arguments have when the caller leaves them out
DefaultPadArgs(op) ==
    IF op = "encode" THEN [id |-> 0, token |-> Text("<PAD>")]
    ELSE [id |-> NoneVal, token |-> Text("<PAD>")]

NeitherSupplied ==
    \/ [id |-> last.args.padding_token_id, token |-> last.args.padding_token]
          = DefaultPadArgs(last.op)
    \/ last.args.padding_token_id = NoneVal /\ ~last.args.padding_token.given

OneId(token) ==
    IF IdsOfText(token) = {} THEN NoneVal ELSE CHOOSE i \in IdsOfText(token) : TRUE

ClaimedPadId ==
    IF NeitherSupplied THEN padding.pad_token_id
    ELSE IF last.args.padding_token.given THEN OneId(last.args.padding_token.text)
    ELSE last.args.padding_token_id

ClaimedPadToken ==
    IF NeitherSupplied THEN padding.pad_token
    ELSE IF last.args.padding_token.given THEN last.args.padding_token
    ELSE id_to_token(decoder_dict, last.args.padding_token_id)

C21_PadResolution ==
    Encoded /\ EffectiveMaxLen # NoneVal =>
        LET full == SegmentsIds(SegmentsOf(last), 1)
            kept == SubSeq(full, 1, Min({Len(full), EffectiveMaxLen}))
        IN  last.ret.ids =
              IF ClaimedPadId # NoneVal /\ ClaimedPadToken.given
              THEN kept \o [i \in 1..(EffectiveMaxLen - Len(kept)) |-> ClaimedPadId]
              ELSE kept

(***************************************************************************)
(* C22: load of a directory that save has just written succeeds and gives  *)
(* a tokenizer equivalent to the saved one: the same sub-tokenizer names   *)
(* in the same order, the same token -> ID map in every sub-tokenizer, the *)
(* same max_possible_token_id and max_special_token_id, and the same       *)
(* result of encode_list for every input, whatever construction,           *)
(* add_special_tokens, enable_padding and enable_truncation did before.    *)
(***************************************************************************)
SavedThenLoaded == last.op = "save" /\ last'.op = "load"

C22_SaveLoadEquivalent ==
    [][SavedThenLoaded =>
          /\ last'.ok
          /\ [k \in DOMAIN tokenizers_info' |-> tokenizers_info'[k].name]
                = [k \in Subs |-> tokenizers_info[k].name]
          /\ \A k \in Subs : tokenizers_info'[k].json.vocab = tokenizers_info[k].json.vocab
          /\ max_possible_token_id' = max_possible_token_id
          /\ max_special_token_id' = max_special_token_id
          /\ \A l \in PadLists, m \in MaxLens, p \in ListPadArgs :
                encode_list(tokenizers_info', decoder_dict', padding', l, m, p.id, p.token)
                = encode_list(tokenizers_info, decoder_dict, padding, l, m, p.id, p.token)
      ]_vars

(***************************************************************************)
(* C23: encode, encode_list, decode, token_to_id and id_to_token never     *)
(* change the tokenizer: after each of them, whether it returned or        *)
(* failed, the sub-tokenizers with their vocabularies, the common          *)
(* specials, the decoder index, both limits, max_len and the pad settings  *)
(* are what they were before the call.                                     *)
(***************************************************************************)
C23_ReadsKeepState ==
    [][IsRead(last'.op) =>
          /\ tokenizers_info' = tokenizers_info
          /\ special_tokens_dict' = special_tokens_dict
          /\ decoder_dict' = decoder_dict
          /\ max_possible_token_id' = max_possible_token_id
          /\ max_special_token_id' = max_special_token_id
          /\ padding' = padding
      ]_vars

\* an encode_list call on a tokenizer that holds pad settings and no max_len
\* was given a max_len and returned a padded encoding
C23_Witness ==
    /\ last.op = "encode_list"
    /\ last.ok
    /\ last.args.max_len # NoneVal
    /\ padding.pad_token.given
    /\ padding.max_len = NoneVal
    /\ Len(last.ret.ids) > Len(SegmentsIds(last.args.typed_input_list, 1))

RemapStart ==
    IF rm.start # NoneVal THEN rm.start
    ELSE IF rm.structs = <<>> THEN 0
    ELSE Max(Range(StructVocab(rm.structs))) + 1

RemapRegulars == (DOMAIN rm.vocab) \ {rm.structs[i].content : i \in DOMAIN rm.structs}

C25_RemapNeverFails ==
    rm.called =>
        /\ rm.out.ok
        /\ RemapRegulars = {} =>
              /\ rm.out.vocab = StructVocab(rm.structs)
              /\ rm.out.next = RemapStart
        /\ RemapRegulars # {} /\ rm.structs = <<>> /\ rm.start = NoneVal =>
              Min({rm.out.vocab[t] : t \in RemapRegulars}) = 0

(***************************************************************************)
(* C26: in a fresh build a text that is a common special token and also in *)
(* the source vocabulary of a sub-tokenizer is not a regular token of that *)
(* sub-tokenizer: it has its special ID only, which lies below every       *)
(* regular ID, so it takes no regular ID, and the other tokens of the      *)
(* source vocabulary are numbered without a gap in the order of their      *)
(* source IDs.                                                             *)
(***************************************************************************)
SourceVocab(k) == last.args.descs[k].json.vocab

SourceRegulars(k) == (DOMAIN SourceVocab(k)) \ Range(CommonSpecials(last.args))

SourceSpecials(k) == (DOMAIN SourceVocab(k)) \cap Range(CommonSpecials(last.args))

C26_SpecialLeavesRegulars ==
    FreshBuilt =>
        \A k \in Subs :
            LET vocab == tokenizers_info[k].json.vocab
            IN  /\ \A t \in SourceSpecials(k) :
                      /\ [id |-> vocab[t], content |-> t] \in SpecialRecords(k)
                      /\ \A r \in RegularIdsOf(k) : vocab[t] < r
                /\ DOMAIN RegularVocab(tokenizers_info[k].json) = SourceRegulars(k)
                /\ Cardinality(RegularIdsOf(k)) = Cardinality(SourceRegulars(k))
                /\ \A a, b \in RegularIdsOf(k) : a..b \subseteq RegularIdsOf(k)
                /\ \A t, u \in SourceRegulars(k) :
                      SourceVocab(k)[t] < SourceVocab(k)[u] => vocab[t] < vocab[u]

\* the source token of the lowest ID became special and a later one stayed regular
C26_Witness ==
    /\ FreshBuilt
    /\ \E k \in Subs :
          \E t \in SourceSpecials(k), u \in SourceRegulars(k) :
              SourceVocab(k)[t] < SourceVocab(k)[u]

(***************************************************************************)
(* C27: is_consistent() returns True exactly when all sub-tokenizers have  *)
(* the same special tokens with the same IDs, no regular ID of a           *)
(* sub-tokenizer is a special ID or a regular ID of another sub-tokenizer, *)
(* and no sub-tokenizer maps two tokens to one ID; with one sub-tokenizer  *)
(* as with several.                                                        *)
(***************************************************************************)
AllSpecialIdsOf(tinfo) == UNION {Range(SpecialVocab(tinfo[k].json)) : k \in DOMAIN tinfo}

NoDuplicateIds(vocab) == \A t, u \in DOMAIN vocab : vocab[t] = vocab[u] => t = u

ConsistentAsStated(tinfo) ==
    /\ \A j, k \in DOMAIN tinfo : SpecialVocab(tinfo[j].json) = SpecialVocab(tinfo[k].json)
    /\ \A k \in DOMAIN tinfo : RegularIds(tinfo[k].json) \cap AllSpecialIdsOf(tinfo) = {}
    /\ \A j, k \in DOMAIN tinfo :
          j # k => RegularIds(tinfo[j].json) \cap RegularIds(tinfo[k].json) = {}
    /\ \A k \in DOMAIN tinfo : NoDuplicateIds(tinfo[k].json.vocab)

C27_ConsistentExactly ==
    last.op = "is_consistent" => (last.ret <=> ConsistentAsStated(tokenizers_info))

(***************************************************************************)
(* C28: max_len is the length given by the latest successful               *)
(* enable_padding or enable_truncation call; enable_padding called without *)
(* a length leaves a truncation length set earlier in force; an            *)
(* enable_padding call that fails leaves max_len and the pad settings as   *)
(* they were.                                                              *)
(***************************************************************************)
TruncationSet == last'.op = "enable_truncation"

PaddingSet == last'.op = "enable_padding" /\ last'.ok

PaddingRefused == last'.op = "enable_padding" /\ ~last'.ok

C28_MaxLenFollowsCalls ==
    [][/\ TruncationSet => padding'.max_len = last'.args.max_length
       /\ PaddingSet =>
             padding'.max_len = IF last'.args.length # NoneVal
                                THEN last'.args.length ELSE padding.max_len
       /\ PaddingRefused => padding' = padding]_vars

(***************************************************************************)
(* C29: add_special_tokens numbers the new texts in the order of the list  *)
(* it is given: of two new texts the one listed first gets the lower ID,   *)
(* in every sub-tokenizer, whatever order the set of new texts is          *)
(* enumerated in.                                                          *)
(***************************************************************************)
Added == last.op = "add" /\ last.ok /\ last.ret > 0

FirstListed(t) == Min({i \in DOMAIN last.args.tokens : last.args.tokens[i] = t})

C29_AddInListOrder ==
    Added =>
        \A k \in Subs :
            \A t, u \in Range(last.args.order) :
                FirstListed(t) < FirstListed(u) =>
                    tokenizers_info[k].json.vocab[t] < tokenizers_info[k].json.vocab[u]

(***************************************************************************)
(* C30: save succeeds on every constructed tokenizer, also when a          *)
(* descriptor has no json_path, and gives every sub-tokenizer a file of    *)
(* its own in the directory, also when two descriptor paths have the same  *)
(* basename; a load of the directory then succeeds and gives every name    *)
(* the vocabulary its sub-tokenizer had when it was saved.                 *)
(***************************************************************************)
SavedFile(k) == basename(saved'.config[k].modular_json_path)

C30_SaveKeepsSubTokenizers ==
    [][/\ last'.op = "save" =>
             /\ last'.ok
             /\ \A j, k \in Subs : j # k => SavedFile(j) # SavedFile(k)
             /\ \A k \in Subs : saved'.files[SavedFile(k)] = tokenizers_info[k].json
       /\ last.op = "save" /\ last'.op = "load" =>
             /\ last'.ok
             /\ \A k \in Subs :
                   /\ tokenizers_info'[k].name = tokenizers_info[k].name
                   /\ tokenizers_info'[k].json.vocab = tokenizers_info[k].json.vocab]_vars

====
